---- MODULE Spec2Model ----
(***************************************************************************)
(* Regex strategy synthesis and ranking engine (src/utils/services.py and  *)
(* src/utils/analisador_template.py).                                      *)
(*                                                                         *)
(* Strings are sequences of one-character strings.  A regular expression   *)
(* is carried as the string the code builds (by re.escape and string       *)
(* concatenation) and is interpreted by Compile / Search, which implement  *)
(* the fragment of Python's re syntax the code can generate: literals,     *)
(* escaped literals, \b, \s*, and the lazy capture group (.+?).            *)
(***************************************************************************)
EXTENDS Integers, Sequences, FiniteSets, TLC

\* item, textos: the arguments of the call; fn: the function called last;
\* result: what it ended with; hist: the first ranked list seen for each pair
\* of arguments of a session; svc: the analyzer instances that are alive.
VARIABLES item, textos, fn, result, hist, svc

vars == <<item, textos, fn, result, hist, svc>>

(***************************************************************************)
(* Characters                                                              *)
(***************************************************************************)

\* The characters of a text are those of Latin-1 (U+0000 to U+00FF), which
\* holds the Portuguese alphabet; str.lower, re.IGNORECASE, \w and \b are
\* modelled on them as Python defines them for str.

AsciiUpperCase == <<"A", "B", "C", "D", "E", "F", "G", "H", "I", "J", "K", "L", "M",
                    "N", "O", "P", "Q", "R", "S", "T", "U", "V", "W", "X", "Y", "Z">>

AsciiLowerCase == <<"a", "b", "c", "d", "e", "f", "g", "h", "i", "j", "k", "l", "m",
                    "n", "o", "p", "q", "r", "s", "t", "u", "v", "w", "x", "y", "z">>

\* The letters of Latin-1 that str.lower changes, and what it changes them to.
Latin1UpperCase == <<"À", "Á", "Â", "Ã", "Ä", "Å", "Æ", "Ç", "È", "É",
                     "Ê", "Ë", "Ì", "Í", "Î", "Ï", "Ð", "Ñ", "Ò", "Ó",
                     "Ô", "Õ", "Ö", "Ø", "Ù", "Ú", "Û", "Ü", "Ý", "Þ">>

Latin1LowerCase == <<"à", "á", "â", "ã", "ä", "å", "æ", "ç", "è", "é",
                     "ê", "ë", "ì", "í", "î", "ï", "ð", "ñ", "ò", "ó",
                     "ô", "õ", "ö", "ø", "ù", "ú", "û", "ü", "ý", "þ">>

UpperCase == AsciiUpperCase \o Latin1UpperCase

LowerCase == AsciiLowerCase \o Latin1LowerCase

\* The other characters of Latin-1 that str.isalnum holds for, and the underscore.
OtherWordChars == {"_", "ª", "²", "³", "µ", "¹", "º", "¼", "½", "¾", "ß", "ÿ"}

Digits == <<"0", "1", "2", "3", "4", "5", "6", "7", "8", "9">>

Range(s) == {s[i] : i \in 1..Len(s)}

SetMin(S) == CHOOSE x \in S : \A y \in S : x <= y

SetMax(S) == CHOOSE x \in S : \A y \in S : y <= x

\* The characters of Latin-1 that str.isspace holds for, which are those of
\* the class \s of re for a str pattern and those str.strip removes: space,
\* \t, \n, \r, \f, \v, the separators U+001C to U+001F, U+0085 and U+00A0.
WhiteSpace == {" ", "\t", "\n", "\r", "\f", "", "", "", "", "", "", " "}

\* str.isspace for one character (the class \s of re).
IsSpace(c) == c \in WhiteSpace

\* The class \w of re for a str pattern: letters, digits and the underscore.
IsWordChar(c) == c \in Range(UpperCase) \cup Range(LowerCase) \cup Range(Digits) \cup OtherWordChars

\* The letters and digits of ASCII: a backslash before one of them is an
\* escape sequence of re, not an escaped literal.
IsAsciiAlnum(c) == c \in Range(AsciiUpperCase) \cup Range(AsciiLowerCase) \cup Range(Digits)

\* str.lower for one character.
LowerChar(c) ==
    IF c \in Range(UpperCase)
    THEN LowerCase[CHOOSE i \in 1..Len(UpperCase) : UpperCase[i] = c]
    ELSE c

\* str.lower
LowerStr(s) == [i \in 1..Len(s) |-> LowerChar(s[i])]

\* The characters re.escape puts a backslash before.
SpecialChars == {"(", ")", "[", "]", "{", "}", "?", "*", "+", "-", "|", "^", "$",
                 "\\", ".", "&", "~", "#", " ", "\t", "\n", "\r", "\f", ""}

RECURSIVE Flatten(_)
\* "".join(parts) for a sequence of strings.
Flatten(parts) ==
    IF parts = <<>> THEN <<>> ELSE Head(parts) \o Flatten(Tail(parts))

\* re.escape
Escape(s) ==
    Flatten([i \in 1..Len(s) |-> IF s[i] \in SpecialChars THEN <<"\\", s[i]>> ELSE <<s[i]>>])

\* s[a:b] of Python for 0 <= a, b (offsets, b clipped to len(s)).
Slice(s, a, b) ==
    LET e == IF b > Len(s) THEN Len(s) ELSE b
    IN  IF a >= e THEN <<>> ELSE SubSeq(s, a + 1, e)

RECURSIVE LStrip(_)
LStrip(s) ==
    IF s # <<>> /\ IsSpace(Head(s)) THEN LStrip(Tail(s)) ELSE s

RECURSIVE RStrip(_)
RStrip(s) ==
    IF s # <<>> /\ IsSpace(s[Len(s)]) THEN RStrip(SubSeq(s, 1, Len(s) - 1)) ELSE s

\* str.strip
Strip(s) == RStrip(LStrip(s))

\* s[::-1]
Reverse(s) == [i \in 1..Len(s) |-> s[Len(s) + 1 - i]]

RECURSIVE JoinWith(_, _)
\* sep.join(parts)
JoinWith(sep, parts) ==
    IF parts = <<>> THEN <<>>
    ELSE IF Len(parts) = 1 THEN parts[1]
    ELSE parts[1] \o sep \o JoinWith(sep, Tail(parts))

\* filter(None, parts): the non-empty strings of parts, in order.
FilterNonEmpty(parts) == SelectSeq(parts, LAMBDA p : p # <<>>)

(***************************************************************************)
(* The regular expressions the code generates                              *)
(***************************************************************************)

WordBoundary == <<"\\", "b">>        \* r'\b'
SpaceStar    == <<"\\", "s", "*">>   \* r'\s*'
CaptureGroup == <<"(", ".", "+", "?", ")">>   \* '(.+?)'

Tok(t, c) == [t |-> t, c |-> c]

RECURSIVE CompileFrom(_, _)
\* re.compile on the generated fragment: the token sequence of r[i..].
\* A construct outside the fragment compiles to a "bad" token (re.error).
CompileFrom(r, i) ==
    IF i > Len(r) THEN <<>>
    ELSE IF r[i] = "\\" THEN
        IF i + 1 > Len(r) THEN <<Tok("bad", "")>>
        ELSE IF r[i + 1] = "b" THEN <<Tok("wb", "")>> \o CompileFrom(r, i + 2)
        ELSE IF r[i + 1] = "s" THEN
            IF i + 2 <= Len(r) /\ r[i + 2] = "*"
            THEN <<Tok("ws", "")>> \o CompileFrom(r, i + 3)
            ELSE <<Tok("bad", "")>>
        ELSE IF IsAsciiAlnum(r[i + 1]) THEN <<Tok("bad", "")>>
        ELSE <<Tok("lit", r[i + 1])>> \o CompileFrom(r, i + 2)
    ELSE IF r[i] = "(" THEN
        IF Slice(r, i - 1, i + 4) = CaptureGroup
        THEN <<Tok("cap", "")>> \o CompileFrom(r, i + 5)
        ELSE <<Tok("bad", "")>>
    ELSE IF r[i] \in SpecialChars \ (WhiteSpace \cup {"-", "&", "~", "#", "]", "}"})
    THEN <<Tok("bad", "")>>
    ELSE <<Tok("lit", r[i])>> \o CompileFrom(r, i + 1)

Compile(r) == CompileFrom(r, 1)

HasBadToken(toks) == \E k \in 1..Len(toks) : toks[k].t = "bad"

\* Whether compiling r raises re.error.
CompileError(r) == HasBadToken(Compile(r))

\* One literal character against one text character.
CharMatches(pc, tc, ignorecase) ==
    IF ignorecase THEN LowerChar(pc) = LowerChar(tc) ELSE pc = tc

\* \b between offsets p and p+1 of text.
AtWordBoundary(text, p) ==
    LET before == p >= 1 /\ IsWordChar(text[p])
        after  == p < Len(text) /\ IsWordChar(text[p + 1])
    IN  before # after

\* The offsets a token can end at when it starts at an offset of P.
TokenEnds(tok, text, P, ignorecase, dotall) ==
    CASE tok.t = "lit" ->
            {p + 1 : p \in {q \in P : q < Len(text) /\ CharMatches(tok.c, text[q + 1], ignorecase)}}
      [] tok.t = "wb" ->
            {p \in P : AtWordBoundary(text, p)}
      [] tok.t = "ws" ->
            {q \in 0..Len(text) : \E p \in P : p <= q /\ \A k \in (p + 1)..q : IsSpace(text[k])}
      [] tok.t = "cap" ->
            {q \in 0..Len(text) : \E p \in P : p < q /\ \A k \in (p + 1)..q : dotall \/ text[k] # "\n"}
      [] OTHER -> {}

RECURSIVE RunTokens(_, _, _, _, _)
RunTokens(toks, text, P, ignorecase, dotall) ==
    IF toks = <<>> \/ P = {} THEN P
    ELSE RunTokens(Tail(toks), text, TokenEnds(Head(toks), text, P, ignorecase, dotall),
                   ignorecase, dotall)

\* bool(re.search(regex, text, flags))
Search(regex, text, ignorecase, dotall) ==
    RunTokens(Compile(regex), text, 0..Len(text), ignorecase, dotall) # {}

(***************************************************************************)
(* Formatting of the evaluation results                                    *)
(***************************************************************************)

RECURSIVE IntToStr(_)
\* str(n) for n >= 0.
IntToStr(n) ==
    IF n < 10 THEN <<Digits[n + 1]>>
    ELSE IntToStr(n \div 10) \o <<Digits[(n % 10) + 1]>>

DigitValue(c) == (CHOOSE i \in 1..Len(Digits) : Digits[i] = c) - 1

RECURSIVE StrToInt(_)
\* int(s) for a string of digits.
StrToInt(s) ==
    IF s = <<>> THEN 0
    ELSE StrToInt(SubSeq(s, 1, Len(s) - 1)) * 10 + DigitValue(s[Len(s)])

(***************************************************************************)
(* The float arithmetic of the rating.  A float is a binary fraction: the  *)
(* digits of a natural number in base 2^13, least significant first and    *)
(* the last one not 0, over a number of fraction bits that the caller      *)
(* keeps.  The arithmetic is exact for a total of up to 2^18 texts.        *)
(***************************************************************************)

\* The significand of a float has 53 bits.
MantissaBits == 53

\* The bits after the leading 1 are four digits of 13 bits.
DigitBits == (MantissaBits - 1) \div 4

Base == 2 ^ DigitBits

RECURSIVE AddDigits(_, _)
\* a + carry
AddDigits(a, carry) ==
    IF carry = 0 THEN a
    ELSE IF a = <<>> THEN <<carry>>
    ELSE <<(a[1] + carry) % Base>> \o AddDigits(Tail(a), (a[1] + carry) \div Base)

RECURSIVE TimesPlus(_, _, _)
\* a * m + carry
TimesPlus(a, m, carry) ==
    IF a = <<>> THEN (IF carry = 0 THEN <<>> ELSE <<carry>>)
    ELSE <<(a[1] * m + carry) % Base>> \o TimesPlus(Tail(a), m, (a[1] * m + carry) \div Base)

Times100(a) == TimesPlus(a, 100, 0)

\* The number of bits of a.
BitLength(a) ==
    DigitBits * (Len(a) - 1)
        + (CHOOSE n \in 1..DigitBits : 2 ^ (n - 1) <= a[Len(a)] /\ a[Len(a)] < 2 ^ n)

\* Bit i of a, bit 0 the least significant.
BitOf(a, i) ==
    IF i \div DigitBits >= Len(a) THEN 0
    ELSE (a[(i \div DigitBits) + 1] \div (2 ^ (i % DigitBits))) % 2

\* a with its last "dropped" bits (fewer than DigitBits) rounded away, to
\* nearest and a tie to even, and written as zeros.
RoundAway(a, dropped) ==
    IF \/ a[1] % (2 ^ dropped) > 2 ^ (dropped - 1)
       \/ a[1] % (2 ^ dropped) = 2 ^ (dropped - 1) /\ BitOf(a, dropped) = 1
    THEN AddDigits(<<a[1] - (a[1] % (2 ^ dropped))>> \o Tail(a), 2 ^ dropped)
    ELSE <<a[1] - (a[1] % (2 ^ dropped))>> \o Tail(a)

\* The float nearest to a, a tie going to the even significand.
RoundToFloat(a) ==
    IF BitLength(a) <= MantissaBits THEN a ELSE RoundAway(a, BitLength(a) - MantissaBits)

RECURSIVE ScaleUp(_, _)
\* s * 2^k for the least k that makes it at least t (0 < s <= t).
ScaleUp(s, t) == IF s >= t THEN s ELSE ScaleUp(2 * s, t)

RECURSIVE Doublings(_, _)
\* That k.
Doublings(s, t) == IF s >= t THEN 0 ELSE 1 + Doublings(2 * s, t)

RECURSIVE QuotientDigits(_, _, _)
\* The first n digits of rem / t after the point, most significant first
\* (rem < t).
QuotientDigits(rem, t, n) ==
    IF n = 0 THEN <<>>
    ELSE <<(rem * Base) \div t>> \o QuotientDigits((rem * Base) % t, t, n - 1)

RECURSIVE RemainderAfter(_, _, _)
\* What is left of rem after those n digits.
RemainderAfter(rem, t, n) == IF n = 0 THEN rem ELSE RemainderAfter((rem * Base) % t, t, n - 1)

\* The significand truncated to MantissaBits bits goes up by one when the
\* rest is above a half, or is a half and the significand is odd.
RoundQuotient(digits, twice_rest, t) ==
    IF twice_rest > t \/ (twice_rest = t /\ digits[1] % 2 = 1) THEN AddDigits(digits, 1) ELSE digits

\* The float sucessos / total over FractionBits(sucessos, total) fraction
\* bits (0 < sucessos <= total).
FloatQuotient(sucessos, total) ==
    RoundQuotient(Reverse(<<1>> \o QuotientDigits(ScaleUp(sucessos, total) - total, total,
                                                   (MantissaBits - 1) \div DigitBits)),
                  2 * RemainderAfter(ScaleUp(sucessos, total) - total, total,
                                     (MantissaBits - 1) \div DigitBits),
                  total)

FractionBits(sucessos, total) == MantissaBits - 1 + Doublings(sucessos, total)

RECURSIVE IntegerFrom(_, _)
\* a with its bits below bit i cut off.
IntegerFrom(a, i) ==
    IF i \div DigitBits >= Len(a) THEN 0 ELSE BitOf(a, i) + 2 * IntegerFrom(a, i + 1)

\* The integer nearest to the binary fraction a over frac fraction bits, a
\* tie going to the even integer.
NearestInteger(a, frac) ==
    IntegerFrom(a, frac)
        + (IF /\ BitOf(a, frac - 1) = 1
              /\ \/ \E k \in 0..(frac - 2) : BitOf(a, k) = 1
                 \/ BitOf(a, frac) = 1
           THEN 1 ELSE 0)

\* The float (sucessos / total) * 100 in hundredths of a percent, rounded as
\* the format specification .2f rounds the float (to nearest, a tie to the
\* even digit): the quotient is rounded to a float, its product by 100 is
\* rounded to a float, and the decimal digits are those of that float.
RatingHundredths(sucessos, total) ==
    IF sucessos = 0 THEN 0
    ELSE NearestInteger(Times100(RoundToFloat(Times100(FloatQuotient(sucessos, total)))),
                        FractionBits(sucessos, total))

\* A number of hundredths written with two decimals and the percent sign.
FormatHundredths(h) ==
    IntToStr(h \div 100) \o <<".">> \o <<Digits[((h % 100) \div 10) + 1]>>
        \o <<Digits[(h % 10) + 1]>> \o <<"%">>

\* f"{rating:.2f}%"
FormatRating(sucessos, total) == FormatHundredths(RatingHundredths(sucessos, total))

\* f"{sucessos}/{total}"
FormatMatches(sucessos, total) == IntToStr(sucessos) \o <<"/">> \o IntToStr(total)

\* float(s) in hundredths, for s the digits of a number with two decimals.
ParseHundredths(s, dot) ==
    StrToInt(SubSeq(s, 1, dot - 1)) * 100 + StrToInt(SubSeq(s, dot + 1, Len(s)))

\* The index of the decimal point.
DotIndex(s) == CHOOSE i \in 1..Len(s) : s[i] = "."

\* float(rating[:-1]) in hundredths.
ParseRating(rating) ==
    ParseHundredths(SubSeq(rating, 1, Len(rating) - 1), DotIndex(rating))

\* The sort key float(x["rating_sucesso"][:-1]), in hundredths.
RatingKey(entry) == ParseRating(entry.rating_sucesso)

RECURSIVE InsertBeforeEqual(_, _)
\* A variant that puts x before the elements with an equal key.
InsertBeforeEqual(sorted, x) ==
    IF sorted = <<>> THEN <<x>>
    ELSE IF RatingKey(Head(sorted)) > RatingKey(x)
         THEN <<Head(sorted)>> \o InsertBeforeEqual(Tail(sorted), x)
         ELSE <<x>> \o sorted

RECURSIVE InsertDesc(_, _)
\* x put into the descending list sorted after every element whose key is
\* not smaller (list.sort is stable, also with reverse=True).
InsertDesc(sorted, x) ==
    IF sorted = <<>> THEN <<x>>
    ELSE IF RatingKey(Head(sorted)) >= RatingKey(x)
         THEN <<Head(sorted)>> \o InsertDesc(Tail(sorted), x)
         ELSE <<x>> \o sorted

RECURSIVE SortFrom(_, _, _)
SortFrom(seq, i, acc) ==
    IF i > Len(seq) THEN acc ELSE SortFrom(seq, i + 1, InsertDesc(acc, seq[i]))

\* A variant that leaves the evaluations in the order of the candidates.
Unsorted(seq) == seq

\* resultados_avaliados.sort(key=..., reverse=True)
SortByRating(seq) == SortFrom(seq, 1, <<>>)

\* A variant that looks for the pattern at the start of the text only
\* (re.match for re.search).
CountMatchesAtStart(regex, corpus, ignorecase, dotall) ==
    Cardinality({i \in 1..Len(corpus) :
                    RunTokens(Compile(regex), corpus[i], {0}, ignorecase, dotall) # {}})

\* The number of corpus texts the pattern is found in.
CountMatches(regex, corpus, ignorecase, dotall) ==
    Cardinality({i \in 1..Len(corpus) : Search(regex, corpus[i], ignorecase, dotall)})

\* One evaluated candidate.
Evaluated(candidata, sucessos, total) ==
    [regex          |-> candidata.regex,
     estrategia     |-> candidata.estrategia,
     rating_sucesso |-> FormatRating(sucessos, total),
     matches        |-> FormatMatches(sucessos, total)]

(***************************************************************************)
(* RegexAnalyzerService: the word path                                     *)
(***************************************************************************)

\* The default context_size of _find_all_contexts.
ContextSize == 30

\* RegexAnalyzerService.__init__ raises ValueError.
WordInitFails(palavra, corpus) == palavra = <<>> \/ corpus = <<>>

\* The first shortest string: min(strings, key=len).
ShortestStr(strings) ==
    strings[CHOOSE i \in 1..Len(strings) :
                /\ \A j \in 1..Len(strings) : Len(strings[i]) <= Len(strings[j])
                /\ \A j \in 1..(i - 1) : Len(strings[j]) > Len(strings[i])]

\* The indices of shortest at which some string differs from it.
Mismatches(strings, shortest) ==
    {i \in 1..Len(shortest) : \E k \in 1..Len(strings) : strings[k][i] # shortest[i]}

\* A variant that cuts at the last mismatching index.
PrefixBeforeLast(shortest, bad) ==
    IF bad = {} THEN shortest ELSE SubSeq(shortest, 1, SetMax(bad) - 1)

\* shortest[:i] for the first mismatching index i, shortest when there is none.
PrefixBefore(shortest, bad) ==
    IF bad = {} THEN shortest ELSE SubSeq(shortest, 1, SetMin(bad) - 1)

\* The loop of _find_longest_common_prefix over the characters of shortest.
CommonPrefixWith(strings, shortest) == PrefixBefore(shortest, Mismatches(strings, shortest))

\* _find_longest_common_prefix
FindLongestCommonPrefix(strings) ==
    IF strings = <<>> THEN <<>> ELSE CommonPrefixWith(strings, ShortestStr(strings))

\* _find_longest_common_suffix
FindLongestCommonSuffix(strings) ==
    IF strings = <<>> THEN <<>>
    ELSE Reverse(FindLongestCommonPrefix([k \in 1..Len(strings) |-> Reverse(strings[k])]))

\* The word matches text at offset w, ignoring case.
WordAt(text, palavra, w) ==
    /\ w + Len(palavra) <= Len(text)
    /\ \A k \in 1..Len(palavra) : CharMatches(palavra[k], text[w + k], TRUE)

\* The offsets q >= p with only whitespace between p and q.
SpaceEnds(text, p) == {q \in p..Len(text) : \A k \in (p + 1)..q : IsSpace(text[k])}

\* The length of the whitespace run that starts at offset p.
SpaceRun(text, p) == SetMax(SpaceEnds(text, p)) - p

\* The offsets after a whitespace run from p at which the word matches.
WordStarts(text, palavra, p) == {q \in SpaceEnds(text, p) : WordAt(text, palavra, q)}

\* The last element of starts, -1 when it is empty.
LastOr(starts) == IF starts = {} THEN -1 ELSE SetMax(starts)

\* \s*(word) from offset p: the offset the word starts at, the greedy \s*
\* giving back one character at a time; -1 when there is none.
GreedyWordStart(text, palavra, p) == LastOr(WordStarts(text, palavra, p))

NoMatch == [found |-> FALSE, start |-> 0, end |-> 0, g1 |-> <<>>, g2 |-> <<>>, g3 |-> <<>>]

\* The match with the word at offsets w..e and the following whitespace up
\* to e2.  A group that did not take part is the empty string.
NeighborRecord(text, s, w, hasG1, e, e2) ==
    [found |-> TRUE,
     start |-> s,
     end   |-> IF e2 < Len(text) THEN e2 + 1 ELSE e2,
     g1    |-> IF hasG1 THEN <<text[s + 1]>> ELSE <<>>,
     g2    |-> SubSeq(text, w + 1, e),
     g3    |-> IF e2 < Len(text) THEN <<text[e2 + 1]>> ELSE <<>>]

\* The rest of the match once the word is placed at w: \s* takes the whole
\* whitespace run and (\S)? the character after it.
NeighborMatchOf(text, palavra, s, w, hasG1) ==
    IF w = -1 THEN NoMatch
    ELSE NeighborRecord(text, s, w, hasG1, w + Len(palavra),
                        w + Len(palavra) + SpaceRun(text, w + Len(palavra)))

\* The word start when (\S)? takes the character at offset s, -1 when that
\* fails.
WordStartWithG1(text, palavra, s) ==
    IF s < Len(text) /\ ~IsSpace(text[s + 1])
    THEN GreedyWordStart(text, palavra, s + 1) ELSE -1

\* The backtracking order: first with group 1 taken, then without it.
NeighborChoose(text, palavra, s, withG1) ==
    IF withG1 # -1
    THEN NeighborMatchOf(text, palavra, s, withG1, TRUE)
    ELSE NeighborMatchOf(text, palavra, s, GreedyWordStart(text, palavra, s), FALSE)

\* The match of (\S)?\s*(word)\s*(\S)? that starts at offset s, as the
\* backtracking matcher finds it: each optional group and each \s* first
\* takes all it can.
NeighborMatchAt(text, palavra, s) ==
    NeighborChoose(text, palavra, s, WordStartWithG1(text, palavra, s))

\* The offsets from pos on at which a match starts.
NeighborStarts(text, palavra, pos) ==
    {s \in pos..Len(text) : NeighborMatchAt(text, palavra, s).found}

RECURSIVE NeighborFindIter(_, _, _)
\* The match m, then the matches found from its end on.
NeighborCons(text, palavra, m) == <<m>> \o NeighborFindIter(text, palavra, m.end)

\* The leftmost match and those after it.
NeighborNext(text, palavra, starts) ==
    IF starts = {} THEN <<>>
    ELSE NeighborCons(text, palavra, NeighborMatchAt(text, palavra, SetMin(starts)))

\* regex_contexto.finditer(texto), scanning from offset pos.
NeighborFindIter(text, palavra, pos) ==
    NeighborNext(text, palavra, NeighborStarts(text, palavra, pos))

\* The matches _find_neighboring_chars keeps, over the whole corpus in order.
NeighborMatches(palavra, corpus) ==
    SelectSeq(Flatten([i \in 1..Len(corpus) |-> NeighborFindIter(corpus[i], palavra, 0)]),
              LAMBDA m : LowerStr(m.g2) = LowerStr(palavra))

\* The groups 1 and the groups 3 of the matches, those that took part.
NeighborGroups(ms) ==
    [prefixos |-> Flatten([k \in 1..Len(ms) |-> ms[k].g1]),
     sufixos  |-> Flatten([k \in 1..Len(ms) |-> ms[k].g3])]

\* _find_neighboring_chars: (prefixos, sufixos)
FindNeighboringChars(palavra, corpus) == NeighborGroups(NeighborMatches(palavra, corpus))

\* The offsets from pos on at which the word occurs, ignoring case.
OccurrenceStarts(text, palavra, pos) == {s \in pos..Len(text) : WordAt(text, palavra, s)}

RECURSIVE WordFindIter(_, _, _)
\* The occurrence at s, then those found from its end on.
OccurrenceCons(text, palavra, s) ==
    <<[start |-> s, end |-> s + Len(palavra)]>> \o WordFindIter(text, palavra, s + Len(palavra))

OccurrenceNext(text, palavra, starts) ==
    IF starts = {} THEN <<>> ELSE OccurrenceCons(text, palavra, SetMin(starts))

\* finder.finditer(text): the spans of the occurrences of the word, ignoring
\* case, leftmost first and not overlapping.
WordFindIter(text, palavra, pos) ==
    OccurrenceNext(text, palavra, OccurrenceStarts(text, palavra, pos))

\* max(0, start - context_size)
ClipLow(n) == IF n > 0 THEN n ELSE 0

\* The (prefix, suffix) pair of one occurrence.
ContextOf(text, span) ==
    [prefix |-> Slice(text, ClipLow(span.start - ContextSize), span.start),
     suffix |-> Slice(text, span.end, span.end + ContextSize)]

ContextsOfSpans(text, spans) == [k \in 1..Len(spans) |-> ContextOf(text, spans[k])]

\* _find_all_contexts: the (prefix, suffix) pairs around every occurrence.
FindAllContexts(palavra, corpus) ==
    Flatten([i \in 1..Len(corpus) |->
                ContextsOfSpans(corpus[i], WordFindIter(corpus[i], palavra, 0))])

\* The number of occurrences of c.
CountOf(chars, c) == Cardinality({i \in 1..Len(chars) : chars[i] = c})

\* The index c is seen at first.
FirstIndexOf(chars, c) == SetMin({i \in 1..Len(chars) : chars[i] = c})

\* A variant that takes, among the most frequent elements, the one seen last.
MostCommonLastSeen(chars) ==
    CHOOSE c \in Range(chars) :
        \A d \in Range(chars) :
            \/ CountOf(chars, c) > CountOf(chars, d)
            \/ (CountOf(chars, c) = CountOf(chars, d)
                    /\ FirstIndexOf(chars, c) >= FirstIndexOf(chars, d))

\* Counter(chars).most_common(1)[0][0]: a most frequent element, the one
\* seen first among those.
MostCommon(chars) ==
    CHOOSE c \in Range(chars) :
        \A d \in Range(chars) :
            \/ CountOf(chars, c) > CountOf(chars, d)
            \/ (CountOf(chars, c) = CountOf(chars, d)
                    /\ FirstIndexOf(chars, c) <= FirstIndexOf(chars, d))

Candidate(estrategia, regex, ignorecase) ==
    [estrategia |-> estrategia, regex |-> regex, ignorecase |-> ignorecase]

\* A variant that generates the exact match before the simple boundary.
BoundaryCandidatesExactFirst(palavra_escapada) ==
    <<Candidate(<<"Correspondencia Exata (sensivel a maiusculas/minusculas)">>,
                WordBoundary \o palavra_escapada \o WordBoundary, FALSE),
      Candidate(<<"Borda de Palavra Simples (ignora maiusculas/minusculas)">>,
                WordBoundary \o palavra_escapada \o WordBoundary, TRUE)>>

\* Strategy 1 and the exact match: the same pattern, with and without
\* re.IGNORECASE.
BoundaryCandidates(palavra_escapada) ==
    <<Candidate(<<"Borda de Palavra Simples (ignora maiusculas/minusculas)">>,
                WordBoundary \o palavra_escapada \o WordBoundary, TRUE),
      Candidate(<<"Correspondencia Exata (sensivel a maiusculas/minusculas)">>,
                WordBoundary \o palavra_escapada \o WordBoundary, FALSE)>>

\* Strategy 2: most common prefix.
PrefixCandidate(palavra_escapada, prefixo_comum) ==
    Candidate(<<"Precedido pelo caractere mais comum ('", prefixo_comum, "')">>,
              Escape(<<prefixo_comum>>) \o SpaceStar \o palavra_escapada \o WordBoundary, TRUE)

\* Strategy 3: most common suffix.
SuffixCandidate(palavra_escapada, sufixo_comum) ==
    Candidate(<<"Seguido pelo caractere mais comum ('", sufixo_comum, "')">>,
              WordBoundary \o palavra_escapada \o SpaceStar \o Escape(<<sufixo_comum>>), TRUE)

\* Strategy 4: surrounded by the most common characters.
SurroundedCandidate(palavra_escapada, prefixo_comum, sufixo_comum) ==
    Candidate(<<"Cercado pelos caracteres mais comuns ('", prefixo_comum, "' e '", sufixo_comum, "')">>,
              Escape(<<prefixo_comum>>) \o SpaceStar \o palavra_escapada
                  \o SpaceStar \o Escape(<<sufixo_comum>>), TRUE)

\* A variant that appends the surrounded candidate before the suffix one.
NeighborCandidatesSwapped(palavra_escapada, prefixos, sufixos) ==
    (IF prefixos # <<>>
     THEN <<PrefixCandidate(palavra_escapada, MostCommon(prefixos))>> ELSE <<>>)
    \o (IF prefixos # <<>> /\ sufixos # <<>>
        THEN <<SurroundedCandidate(palavra_escapada, MostCommon(prefixos), MostCommon(sufixos))>>
        ELSE <<>>)
    \o (IF sufixos # <<>>
        THEN <<SuffixCandidate(palavra_escapada, MostCommon(sufixos))>> ELSE <<>>)

\* The candidates learned from the neighbouring characters.
NeighborCandidates(palavra_escapada, prefixos, sufixos) ==
    (IF prefixos # <<>>
     THEN <<PrefixCandidate(palavra_escapada, MostCommon(prefixos))>> ELSE <<>>)
    \o (IF sufixos # <<>>
        THEN <<SuffixCandidate(palavra_escapada, MostCommon(sufixos))>> ELSE <<>>)
    \o (IF prefixos # <<>> /\ sufixos # <<>>
        THEN <<SurroundedCandidate(palavra_escapada, MostCommon(prefixos), MostCommon(sufixos))>>
        ELSE <<>>)

\* [re.escape(p) for p in parts]
EscapeAll(parts) == [k \in 1..Len(parts) |-> Escape(parts[k])]

\* The learned context, when the common prefix or the common suffix is not
\* empty.
OptimalCandidate(palavra, common_prefix, common_suffix) ==
    IF common_prefix # <<>> \/ common_suffix # <<>>
    THEN <<Candidate(<<"Contexto Otimizado (aprendido dos exemplos)">>,
                     JoinWith(SpaceStar,
                              EscapeAll(FilterNonEmpty(<<common_prefix, palavra, common_suffix>>))),
                     TRUE)>>
    ELSE <<>>

Prefixes(contexts) == [k \in 1..Len(contexts) |-> contexts[k].prefix]

Suffixes(contexts) == [k \in 1..Len(contexts) |-> contexts[k].suffix]

\* The candidate learned from the contexts of the occurrences.
ContextCandidates(palavra, contexts) ==
    IF contexts # <<>>
    THEN OptimalCandidate(palavra,
                          Strip(FindLongestCommonPrefix(Prefixes(contexts))),
                          Strip(FindLongestCommonSuffix(Suffixes(contexts))))
    ELSE <<>>

\* The candidates in the order they are appended.
CandidatesFrom(palavra, palavra_escapada, viz, contexts) ==
    BoundaryCandidates(palavra_escapada)
        \o NeighborCandidates(palavra_escapada, viz.prefixos, viz.sufixos)
        \o ContextCandidates(palavra, contexts)

\* _generate_candidate_strategies
GenerateCandidateStrategies(palavra, corpus) ==
    CandidatesFrom(palavra, Escape(palavra), FindNeighboringChars(palavra, corpus),
                   FindAllContexts(palavra, corpus))

\* The evaluation of one candidate of the word path, with its own flags.
EvaluateWordCandidate(candidata, corpus) ==
    Evaluated(candidata, CountMatches(candidata.regex, corpus, candidata.ignorecase, FALSE),
              Len(corpus))

\* The loop of analyze_and_rank: a candidate whose pattern does not compile
\* (re.error) is skipped.
EvaluateWordCandidates(candidatas, corpus) ==
    [k \in 1..Len(candidatas) |-> EvaluateWordCandidate(candidatas[k], corpus)]

\* A variant in which a pattern that does not compile aborts the ranking.
AbortOnError(candidatas) ==
    IF \E k \in 1..Len(candidatas) : CompileError(candidatas[k].regex) THEN <<>> ELSE candidatas

\* The candidates the loop keeps: except re.error: continue.
Compilable(candidatas) == SelectSeq(candidatas, LAMBDA c : ~CompileError(c.regex))

\* The loop and the sort of analyze_and_rank on a given list of candidates.
RankCandidates(candidatas, corpus) ==
    SortByRating(EvaluateWordCandidates(Compilable(candidatas), corpus))

\* RegexAnalyzerService.analyze_and_rank
WordAnalyzeAndRank(palavra, corpus) ==
    SortByRating(EvaluateWordCandidates(Compilable(GenerateCandidateStrategies(palavra, corpus)),
                                        corpus))

\* ranked_results[0]['regex'], or the default when the list is empty.
BestRegexOr(ranked_results, default) ==
    IF ranked_results = <<>> THEN default ELSE ranked_results[1].regex

\* A variant that ignores the ranking and answers the plain boundary pattern.
WordBoundaryOnly(palavra, corpus) == WordBoundary \o Escape(palavra) \o WordBoundary

\* RegexAnalyzerService.get_best_regex (through _get_ranked_results).
WordGetBestRegex(palavra, corpus) ==
    BestRegexOr(WordAnalyzeAndRank(palavra, corpus),
                WordBoundary \o Escape(palavra) \o WordBoundary)

(***************************************************************************)
(* TemplateAnalyzerService: the template path                              *)
(***************************************************************************)

\* TemplateAnalyzerService.__init__ raises ValueError.
TemplateInitFails(template, corpus) == template = <<>> \/ corpus = <<>>

StartsWithBracket(part) == part # <<>> /\ part[1] = "["

EndsWithBracket(part) == part # <<>> /\ part[Len(part)] = "]"

\* The indices after i that hold "]".
Closes(s, i) == {j \in (i + 1)..Len(s) : s[j] = "]"}

\* The first of closes when no line break lies before it, 0 otherwise.
FirstClose(s, i, j) ==
    IF \E k \in (i + 1)..(j - 1) : s[k] = "\n" THEN 0 ELSE j

MarkerEndIn(s, i, closes) == IF closes = {} THEN 0 ELSE FirstClose(s, i, SetMin(closes))

\* The index of the "]" that closes the marker \[.*?\] opened at index i,
\* 0 when there is none ("." does not match a line break).
MarkerEnd(s, i) == MarkerEndIn(s, i, Closes(s, i))

\* The indices after pos at which a marker opens.
Opens(s, pos) == {i \in (pos + 1)..Len(s) : s[i] = "[" /\ MarkerEnd(s, i) # 0}

RECURSIVE SplitFrom(_, _)
\* The literal before the marker at i..j, the marker, and the split of the rest.
SplitAt(s, pos, i, j) == <<Slice(s, pos, i - 1), SubSeq(s, i, j)>> \o SplitFrom(s, j)

SplitAtFirst(s, pos, i) == SplitAt(s, pos, i, MarkerEnd(s, i))

SplitNext(s, pos, opens) ==
    IF opens = {} THEN <<Slice(s, pos, Len(s))>> ELSE SplitAtFirst(s, pos, SetMin(opens))

\* re.split(r'(\[.*?\])', s) from offset pos on: literal, marker, literal, ...
SplitFrom(s, pos) == SplitNext(s, pos, Opens(s, pos))

SplitTemplate(template) == SplitFrom(template, 0)

\* len(parts) < 2 or not any(p.startswith('[') for p in parts)
PartsInvalid(parts) ==
    Len(parts) < 2 \/ ~\E k \in 1..Len(parts) : StartsWithBracket(parts[k])

\* The validity test shared by _parse_template and
\* TemplateAnalyzerService._build_regex_strategies.
TemplateInvalid(template) == PartsInvalid(SplitTemplate(template))

\* _parse_template returns None.
ParseTemplateIsNone(template) == TemplateInvalid(template)

Strategy(estrategia, regex) == [estrategia |-> estrategia, regex |-> regex]

\* The index of the first and of the last part that starts with "[".
FirstCapIdx(parts) ==
    CHOOSE i \in 1..Len(parts) :
        StartsWithBracket(parts[i]) /\ \A j \in 1..(i - 1) : ~StartsWithBracket(parts[j])

LastCapIdx(parts) ==
    CHOOSE i \in 1..Len(parts) :
        StartsWithBracket(parts[i]) /\ \A j \in (i + 1)..Len(parts) : ~StartsWithBracket(parts[j])

\* A capture group per part that starts with "[", the escaped trimmed text of
\* each other part.
CaptureOrEscape(kept) ==
    [k \in 1..Len(kept) |->
        IF StartsWithBracket(kept[k]) THEN CaptureGroup ELSE Escape(Strip(kept[k]))]

\* The parts of the minimal context: a capture group per part that starts
\* with "[", the escaped trimmed text of each other non-blank part.
MinimalRegexParts(sliced) ==
    CaptureOrEscape(SelectSeq(sliced, LAMBDA p : StartsWithBracket(p) \/ Strip(p) # <<>>))

\* The indices at which a pattern occurs first.
FirstOccurrences(nonEmpty) ==
    {k \in 1..Len(nonEmpty) : \A j \in 1..(k - 1) : nonEmpty[j].regex # nonEmpty[k].regex}

\* The last index that holds the pattern of index k.
LastOccurrence(nonEmpty, k) ==
    CHOOSE j \in 1..Len(nonEmpty) :
        /\ nonEmpty[j].regex = nonEmpty[k].regex
        /\ \A i \in (j + 1)..Len(nonEmpty) : nonEmpty[i].regex # nonEmpty[k].regex

\* The n-th element of a set of indices.
NthOf(S, n) == CHOOSE k \in S : Cardinality({j \in S : j < k}) = n - 1

DictValues(nonEmpty, firsts) ==
    [n \in 1..Cardinality(firsts) |-> nonEmpty[LastOccurrence(nonEmpty, NthOf(firsts, n))]]

DedupNonEmpty(nonEmpty) == DictValues(nonEmpty, FirstOccurrences(nonEmpty))

\* A variant that keeps every non-empty strategy, repeated patterns included.
KeepDuplicates(strategies) == SelectSeq(strategies, LAMBDA s : s.regex # <<>>)

\* unique_strategies = {s['regex']: s for s in strategies if s['regex']}:
\* one entry per pattern at the place of its first occurrence, holding the
\* last strategy with that pattern.
DedupByDict(strategies) ==
    DedupNonEmpty(SelectSeq(strategies, LAMBDA s : s.regex # <<>>))

\* Strategy 1: full context.
FullStrategy(full_regex_parts) ==
    <<Strategy(<<"Contexto Completo">>, JoinWith(SpaceStar, FilterNonEmpty(full_regex_parts)))>>

\* Strategies 2 and 3: anchored at the start, anchored at the end.
AnchoredStrategies(parts, full_regex_parts) ==
    (IF ~StartsWithBracket(parts[Len(parts)]) /\ Len(parts) > 2
     THEN <<Strategy(<<"Ancorado no Inicio">>,
                     JoinWith(SpaceStar,
                              FilterNonEmpty(SubSeq(full_regex_parts, 1, Len(full_regex_parts) - 1))))>>
     ELSE <<>>)
    \o (IF ~StartsWithBracket(parts[1]) /\ Len(parts) > 2
        THEN <<Strategy(<<"Ancorado no Fim">>,
                        JoinWith(SpaceStar,
                                 FilterNonEmpty(SubSeq(full_regex_parts, 2, Len(full_regex_parts)))))>>
        ELSE <<>>)

\* any(p.strip() and not p.startswith('[') for p in sliced)
HasLiteralContext(sliced) ==
    \E k \in 1..Len(sliced) : ~StartsWithBracket(sliced[k]) /\ Strip(sliced[k]) # <<>>

MinimalOfSlice(sliced) ==
    IF HasLiteralContext(sliced)
    THEN <<Strategy(<<"Contexto Minimo (entre marcadores)">>,
                    JoinWith(SpaceStar, MinimalRegexParts(sliced)))>>
    ELSE <<>>

\* Strategy 4: minimal context, between the first and the last marker.
MinimalBetween(parts, first_cap_idx, last_cap_idx) ==
    IF last_cap_idx > first_cap_idx
    THEN MinimalOfSlice(SubSeq(parts, first_cap_idx, last_cap_idx))
    ELSE <<>>

MinimalStrategy(parts) == MinimalBetween(parts, FirstCapIdx(parts), LastCapIdx(parts))

StrategiesWith(parts, full_regex_parts) ==
    FullStrategy(full_regex_parts) \o AnchoredStrategies(parts, full_regex_parts)
        \o MinimalStrategy(parts)

\* The strategies built from the parts of a template.
StrategiesOfParts(parts) ==
    StrategiesWith(parts, CaptureOrEscape(SelectSeq(parts, LAMBDA p : p # <<>>)))

\* The strategies of TemplateAnalyzerService._build_regex_strategies in the
\* order they are appended, before unique_strategies is built, for a
\* template that passes the validity test.
TemplateStrategies(template) == StrategiesOfParts(SplitTemplate(template))

\* TemplateAnalyzerService._build_regex_strategies, for a template that
\* passes the validity test (it raises ValueError otherwise).
TemplateBuildRegexStrategies(template) == DedupByDict(TemplateStrategies(template))

\* The evaluation loop and the sort the two template rankers share:
\* re.search with IGNORECASE | DOTALL, then the descending sort.
EvaluateTemplateCandidates(candidatas, corpus) ==
    SortByRating([k \in 1..Len(candidatas) |->
        Evaluated(candidatas[k], CountMatches(candidatas[k].regex, corpus, TRUE, TRUE), Len(corpus))])

\* TemplateAnalyzerService.analyze_and_rank, for a template that passes the
\* validity test (it raises ValueError otherwise).
TemplateAnalyzeAndRank(template, corpus) ==
    EvaluateTemplateCandidates(TemplateBuildRegexStrategies(template), corpus)

\* TemplateAnalyzerService.get_best_regex (through _get_ranked_results).
TemplateGetBestRegex(template, corpus) ==
    BestRegexOr(TemplateAnalyzeAndRank(template, corpus), <<>>)

(***************************************************************************)
(* analisador_template.py: the stand-alone template ranker                 *)
(***************************************************************************)

\* The indices of the strategies that are kept.
KeptIndices(strategies) ==
    {k \in 1..Len(strategies) :
        /\ strategies[k].regex # <<>>
        /\ \A j \in 1..(k - 1) : strategies[j].regex # strategies[k].regex}

KeepIndices(strategies, keep) ==
    [n \in 1..Cardinality(keep) |-> strategies[NthOf(keep, n)]]

\* seen_regexes / unique_strategies: the first strategy of each non-empty pattern.
DedupKeepFirst(strategies) == KeepIndices(strategies, KeptIndices(strategies))

\* A capture group per part that starts with "[" and ends with "]", the
\* escaped trimmed text of each other part.
CaptureOrEscapeClosed(nonEmpty) ==
    [k \in 1..Len(nonEmpty) |->
        IF StartsWithBracket(nonEmpty[k]) /\ EndsWithBracket(nonEmpty[k])
        THEN CaptureGroup ELSE Escape(Strip(nonEmpty[k]))]

\* Strategy 1: full context.
FullStrategy2(full_regex_parts) ==
    <<Strategy(<<"Contexto Completo (usa todo o template)">>,
               JoinWith(SpaceStar, full_regex_parts))>>

\* Strategies 2 and 3: anchored at the start, anchored at the end.
AnchoredStrategies2(parts, full_regex_parts) ==
    (IF ~StartsWithBracket(parts[Len(parts)]) /\ Len(parts) > 2
     THEN <<Strategy(<<"Ancorado no Inicio (ignora o final do template)">>,
                     JoinWith(SpaceStar,
                              FilterNonEmpty(SubSeq(full_regex_parts, 1, Len(full_regex_parts) - 1))))>>
     ELSE <<>>)
    \o (IF ~StartsWithBracket(parts[1]) /\ Len(parts) > 2
        THEN <<Strategy(<<"Ancorado no Fim (ignora o inicio do template)">>,
                        JoinWith(SpaceStar,
                                 FilterNonEmpty(SubSeq(full_regex_parts, 2, Len(full_regex_parts)))))>>
        ELSE <<>>)

\* any(re.escape(p.strip()) in minimal_regex_parts for p in parts if not p.startswith('['))
AnyLiteralIn(parts, minimal_regex_parts) ==
    \E k \in 1..Len(parts) :
        /\ ~StartsWithBracket(parts[k])
        /\ \E m \in 1..Len(minimal_regex_parts) :
               minimal_regex_parts[m] = Escape(Strip(parts[k]))

MinimalOfParts2(parts, minimal_regex_parts) ==
    IF AnyLiteralIn(parts, minimal_regex_parts)
    THEN <<Strategy(<<"Contexto Minimo (apenas entre os marcadores)">>,
                    JoinWith(SpaceStar, minimal_regex_parts))>>
    ELSE <<>>

MinimalBetween2(parts, first_cap_idx, last_cap_idx) ==
    IF last_cap_idx > first_cap_idx
    THEN MinimalOfParts2(parts, MinimalRegexParts(SubSeq(parts, first_cap_idx, last_cap_idx)))
    ELSE <<>>

\* Strategy 4: minimal context, when the template has a marker.
MinimalStrategy2(parts) ==
    IF \E k \in 1..Len(parts) : StartsWithBracket(parts[k])
    THEN MinimalBetween2(parts, FirstCapIdx(parts), LastCapIdx(parts))
    ELSE <<>>

StrategiesWith2(parts, full_regex_parts) ==
    FullStrategy2(full_regex_parts) \o AnchoredStrategies2(parts, full_regex_parts)
        \o MinimalStrategy2(parts)

\* The candidates of analisador_template.py before the removal of
\* duplicates.
GeneratedByModule(parts) ==
    StrategiesWith2(parts, CaptureOrEscapeClosed(SelectSeq(parts, LAMBDA q : q # <<>>)))

\* _build_regex_strategies of analisador_template.py
BuildRegexStrategies(parts) ==
    DedupKeepFirst(StrategiesWith2(parts, CaptureOrEscapeClosed(SelectSeq(parts, LAMBDA p : p # <<>>))))

\* analisar_template_e_rankear_regex
AnalisarTemplateERankearRegex(template_string, textos_de_exemplo) ==
    IF textos_de_exemplo = <<>> THEN <<>>
    ELSE IF ParseTemplateIsNone(template_string) THEN <<>>
    ELSE EvaluateTemplateCandidates(BuildRegexStrategies(SplitTemplate(template_string)),
                                    textos_de_exemplo)

(***************************************************************************)
(* The facade: regex_words, regex_context, regex_rank                      *)
(*                                                                         *)
(* An argument is a string, a list, or a value of another type; a list     *)
(* element is a string or a value of another type (an int).  A call ends   *)
(* by returning a string, a ranked list or a mapping, or by raising.       *)
(***************************************************************************)

StrVal(s)   == [kind |-> "str", v |-> s]
IntVal      == [kind |-> "int", v |-> <<>>]
ListVal(xs) == [kind |-> "list", v |-> xs]

RetStr(s)   == [kind |-> "str", val |-> s]
RetRank(r)  == [kind |-> "rank", val |-> r]
RetMap(m)   == [kind |-> "map", val |-> m]
Raises(e)   == [kind |-> "raise", val |-> e]
NoResult    == [kind |-> "none", val |-> <<>>]

\* The messages of the ValueErrors, which regex_rank returns as str(e).
MsgPalavraVazia    == "Palavra-alvo e textos de exemplo nao podem ser vazios."
MsgTemplateVazio   == "Template e textos de exemplo nao podem ser vazios."
MsgTemplateInvalido == "Template invalido. Deve conter pelo menos um marcador como [nome]."

ErrorEntry(msg) == [error |-> msg]

\* r'\b' + re.escape(p) + r'\b'
FallbackPattern(palavra) == WordBoundary \o Escape(palavra) \o WordBoundary

\* A variant that loses the last item of the list.
KeysButLast(xs) == {xs[i] : i \in 1..(Len(xs) - 1)}

\* The keys of the mapping a batch call returns.
Keys(xs) == {xs[i] : i \in 1..Len(xs)}

\* A variant of the loop that stores the result of the first item under
\* every key.
BatchLoopFirstOnly(xs, rs) ==
    IF \E i \in 1..Len(xs) : rs[i].kind = "raise"
    THEN rs[CHOOSE i \in 1..Len(xs) : rs[i].kind = "raise" /\ \A j \in 1..(i - 1) : rs[j].kind # "raise"]
    ELSE RetMap([x \in Keys(xs) |-> rs[1].val])

\* The loop results[x] = single(x) over the list xs, where rs[i] is what the
\* single call of xs[i] ends with: the first exception leaves the loop.
BatchLoop(xs, rs) ==
    IF \E i \in 1..Len(xs) : rs[i].kind = "raise"
    THEN rs[CHOOSE i \in 1..Len(xs) : rs[i].kind = "raise" /\ \A j \in 1..(i - 1) : rs[j].kind # "raise"]
    ELSE RetMap([x \in Keys(xs) |->
            rs[CHOOSE i \in 1..Len(xs) : xs[i] = x /\ \A j \in (i + 1)..Len(xs) : xs[j] # x].val])

\* A variant without the except ValueError clause.
RegexWordsUncaught(x, corpus) ==
    IF x.kind = "str"
    THEN IF WordInitFails(x.v, corpus)
         THEN Raises("ValueError")
         ELSE RetStr(WordGetBestRegex(x.v, corpus))
    ELSE Raises("TypeError")

\* regex_words with one word: the isinstance(..., str) branch, and the
\* TypeError for anything that is neither a string nor a list.
RegexWordsSingle(x, corpus) ==
    IF x.kind = "str"
    THEN IF WordInitFails(x.v, corpus)
         THEN RetStr(FallbackPattern(x.v))
         ELSE RetStr(WordGetBestRegex(x.v, corpus))
    ELSE Raises("TypeError")

\* regex_words
RegexWords(arg, corpus) ==
    IF arg.kind = "list"
    THEN IF corpus = <<>>
         THEN \* re.escape of a value that is no string raises TypeError
              IF \E i \in 1..Len(arg.v) : arg.v[i].kind # "str"
              THEN Raises("TypeError")
              ELSE RetMap([x \in Keys(arg.v) |-> FallbackPattern(x.v)])
         ELSE BatchLoop(arg.v, [i \in 1..Len(arg.v) |-> RegexWordsSingle(arg.v[i], corpus)])
    ELSE RegexWordsSingle(arg, corpus)

\* A variant without the except ValueError clause.
RegexContextUncaught(x, corpus) ==
    IF x.kind = "str"
    THEN IF TemplateInitFails(x.v, corpus) \/ TemplateInvalid(x.v)
         THEN Raises("ValueError")
         ELSE RetStr(TemplateGetBestRegex(x.v, corpus))
    ELSE Raises("TypeError")

\* regex_context with one template.
RegexContextSingle(x, corpus) ==
    IF x.kind = "str"
    THEN IF TemplateInitFails(x.v, corpus) \/ TemplateInvalid(x.v)
         THEN RetStr(<<>>)
         ELSE RetStr(TemplateGetBestRegex(x.v, corpus))
    ELSE Raises("TypeError")

\* regex_context
RegexContext(arg, corpus) ==
    IF arg.kind = "list"
    THEN IF corpus = <<>>
         THEN RetMap([x \in Keys(arg.v) |-> <<>>])
         ELSE BatchLoop(arg.v, [i \in 1..Len(arg.v) |-> RegexContextSingle(arg.v[i], corpus)])
    ELSE RegexContextSingle(arg, corpus)

\* A variant that only looks for the opening bracket.
HasOpeningBracket(s) == "[" \in Range(s)

\* '[' in item and ']' in item
IsTemplateItem(s) == "[" \in Range(s) /\ "]" \in Range(s)

\* A variant without the except ValueError clause.
GetRankUncaught(x, corpus) ==
    IF x.kind # "str" THEN Raises("TypeError")
    ELSE IF IsTemplateItem(x.v)
    THEN IF TemplateInitFails(x.v, corpus) \/ TemplateInvalid(x.v) THEN Raises("ValueError")
         ELSE RetRank(TemplateAnalyzeAndRank(x.v, corpus))
    ELSE IF WordInitFails(x.v, corpus) THEN Raises("ValueError")
         ELSE RetRank(WordAnalyzeAndRank(x.v, corpus))

\* regex_rank._get_rank_for_single_item; the operator "in" raises
\* TypeError on a value that is no container.
GetRankForSingleItem(x, corpus) ==
    IF x.kind # "str" THEN Raises("TypeError")
    ELSE IF IsTemplateItem(x.v)
    THEN IF TemplateInitFails(x.v, corpus) THEN RetRank(<<ErrorEntry(MsgTemplateVazio)>>)
         ELSE IF TemplateInvalid(x.v) THEN RetRank(<<ErrorEntry(MsgTemplateInvalido)>>)
         ELSE RetRank(TemplateAnalyzeAndRank(x.v, corpus))
    ELSE IF WordInitFails(x.v, corpus) THEN RetRank(<<ErrorEntry(MsgPalavraVazia)>>)
         ELSE RetRank(WordAnalyzeAndRank(x.v, corpus))

\* A variant without the early return for an empty corpus.
RegexRankNoEmptyCheck(arg, corpus) ==
    IF arg.kind = "str" THEN GetRankForSingleItem(arg, corpus)
    ELSE IF arg.kind = "list"
    THEN BatchLoop(arg.v, [i \in 1..Len(arg.v) |-> GetRankForSingleItem(arg.v[i], corpus)])
    ELSE Raises("TypeError")

\* regex_rank
RegexRank(arg, corpus) ==
    IF arg.kind = "str" THEN GetRankForSingleItem(arg, corpus)
    ELSE IF arg.kind = "list"
    THEN IF corpus = <<>>
         THEN RetMap([x \in Keys(arg.v) |-> <<>>])
         ELSE BatchLoop(arg.v, [i \in 1..Len(arg.v) |-> GetRankForSingleItem(arg.v[i], corpus)])
    ELSE Raises("TypeError")

(***************************************************************************)
(* The calls                                                               *)
(***************************************************************************)

\* The size of a call, the sum of the sizes of its two arguments, is at
\* most MaxSize; a single item has at most MaxItemAtoms atoms and a list at
\* most MaxBatch elements.
MaxSize      == 5
MaxItemAtoms == 3
MaxBatch     == 2

\* What single items are built from: a letter, the two brackets and a whole
\* marker.
ItemAtoms == {<<"a">>, <<"[">>, <<"]">>, <<"[", "n", "]">>}

\* The strings a list holds: the empty string, a keyword, a string with both
\* brackets and no marker, and a template.
BatchStrings == {<<>>, <<"a">>, <<"]", "[">>, <<"[", "n", "]", "a">>}

\* The characters of the corpus texts.
TextChars == {"a", "b", " "}

RECURSIVE AtomStrings(_)
\* The items of exactly n atoms.
AtomStrings(n) ==
    IF n = 0 THEN {<<>>} ELSE {s \o a : s \in AtomStrings(n - 1), a \in ItemAtoms}

BatchElems == {StrVal(s) : s \in BatchStrings} \cup {IntVal}

\* The arguments of size n: a string of n atoms, a value of another type
\* (size 1), a list of n - 1 elements.
ArgsOfSize(n) ==
    (IF n <= MaxItemAtoms THEN {StrVal(s) : s \in AtomStrings(n)} ELSE {})
        \cup (IF n = 1 THEN {IntVal} ELSE {})
        \cup (IF n >= 1 /\ n - 1 <= MaxBatch THEN {ListVal(xs) : xs \in [1..(n - 1) -> BatchElems]} ELSE {})

RECURSIVE CorporaUpTo(_)
\* The corpora of size at most n, a text of k characters counting k + 1.
CorporaUpTo(n) ==
    {<<>>} \cup UNION {{<<t>> \o c : t \in [1..k -> TextChars], c \in CorporaUpTo(n - k - 1)} :
                         k \in 0..(n - 1)}

Init ==
    /\ \E n \in 0..MaxSize :
          /\ item \in ArgsOfSize(n)
          /\ textos \in CorporaUpTo(MaxSize - n)
    /\ fn = "none"
    /\ result = NoResult
    /\ hist = <<>>
    /\ svc = <<>>

CallRegexWords ==
    /\ fn' = "regex_words"
    /\ result' = RegexWords(item, textos)
    /\ UNCHANGED <<item, textos, hist, svc>>

CallRegexContext ==
    /\ fn' = "regex_context"
    /\ result' = RegexContext(item, textos)
    /\ UNCHANGED <<item, textos, hist, svc>>

CallRegexRank ==
    /\ fn' = "regex_rank"
    /\ result' = RegexRank(item, textos)
    /\ UNCHANGED <<item, textos, hist, svc>>

CallAnalisarTemplate ==
    /\ item.kind = "str"
    /\ fn' = "analisar_template_e_rankear_regex"
    /\ result' = RetRank(AnalisarTemplateERankearRegex(item.v, textos))
    /\ UNCHANGED <<item, textos, hist, svc>>

Next ==
    \/ CallRegexWords
    \/ CallRegexContext
    \/ CallRegexRank
    \/ CallAnalisarTemplate

Spec == Init /\ [][Next]_vars

(***************************************************************************)
(* The candidate generators, called on their own                           *)
(***************************************************************************)

\* The corpora of the keyword have size at most MaxCorpusSize and the
\* templates at most MaxTemplateAtoms atoms.
MaxCorpusSize    == 6
MaxTemplateAtoms == 4

\* What the templates are built from: a letter, a blank, a marker and an
\* opening bracket.
TemplateAtoms == {<<"a">>, <<" ">>, <<"[", "n", "]">>, <<"[">>}

RECURSIVE TemplateStringsOf(_)
\* The strings of exactly n atoms.
TemplateStringsOf(n) ==
    IF n = 0 THEN {<<>>} ELSE {s \o a : s \in TemplateStringsOf(n - 1), a \in TemplateAtoms}

TemplateStrings == UNION {TemplateStringsOf(n) : n \in 1..MaxTemplateAtoms}

RetCandidates(c) == [kind |-> "candidates", val |-> c]

\* An analyzer is built for the keyword "a" and a corpus, or for a template
\* and a corpus of one empty text.  After a call that builds template
\* strategies, hist holds the list "strategies" as it was before the
\* duplicates were removed.
CandidatesInit ==
    /\ \/ item = StrVal(<<"a">>) /\ textos \in CorporaUpTo(MaxCorpusSize) \ {<<>>}
       \/ item \in {StrVal(t) : t \in TemplateStrings} /\ textos = << <<>> >>
    /\ fn = "none"
    /\ result = NoResult
    /\ hist = <<>>
    /\ svc = <<>>

\* RegexAnalyzerService(item, textos)._generate_candidate_strategies()
GenerateCandidates ==
    /\ ~WordInitFails(item.v, textos)
    /\ fn' = "RegexAnalyzerService._generate_candidate_strategies"
    /\ result' = RetCandidates(GenerateCandidateStrategies(item.v, textos))
    /\ hist' = <<>>
    /\ UNCHANGED <<item, textos, svc>>

\* TemplateAnalyzerService(item, textos)._build_regex_strategies()
BuildStrategiesOfService ==
    /\ ~TemplateInitFails(item.v, textos)
    /\ fn' = "TemplateAnalyzerService._build_regex_strategies"
    /\ result' = IF TemplateInvalid(item.v) THEN Raises("ValueError")
                 ELSE RetCandidates(TemplateBuildRegexStrategies(item.v))
    /\ hist' = IF TemplateInvalid(item.v) THEN <<>> ELSE TemplateStrategies(item.v)
    /\ UNCHANGED <<item, textos, svc>>

\* _build_regex_strategies(_parse_template(item)) of analisador_template.py
BuildStrategiesOfModule ==
    /\ ~ParseTemplateIsNone(item.v)
    /\ fn' = "_build_regex_strategies"
    /\ result' = RetCandidates(BuildRegexStrategies(SplitTemplate(item.v)))
    /\ hist' = GeneratedByModule(SplitTemplate(item.v))
    /\ UNCHANGED <<item, textos, svc>>

CandidatesNext ==
    \/ GenerateCandidates
    \/ BuildStrategiesOfService
    \/ BuildStrategiesOfModule

SpecCandidates == CandidatesInit /\ [][CandidatesNext]_vars

(***************************************************************************)
(* Analyzer instances and their cache: svc holds the instances, hist what  *)
(* each of them was seen to do                                             *)
(***************************************************************************)

\* get_best_regex is called at most MaxCalls times on an instance, and the
\* corpus of an instance has size at most MaxInstanceCorpus.
MaxCalls          == 2
MaxInstanceCorpus == 2

Instances == {"s1", "s2"}

InstanceWords == {<<"a">>}

\* Two templates that pass the validity test and one that does not.
InstanceTemplates == {<<"[", "n", "]", "a">>, <<"[", "n", "]", " ">>, <<"a">>}

InstanceCorpora == CorporaUpTo(MaxInstanceCorpus)

\* self._ranked_results = None
Unset == [set |-> FALSE, val |-> <<>>]

Cached(ranked) == [set |-> TRUE, val |-> ranked]

NoInstance ==
    [class |-> "none", target |-> <<>>, textos_de_exemplo |-> <<>>, ranked_results |-> Unset]

\* __init__: the arguments are stored and the cache is unset.
NewInstance(class, target, corpus) ==
    [class |-> class, target |-> target, textos_de_exemplo |-> corpus, ranked_results |-> Unset]

\* What was seen of an instance: how often analyze_and_rank ran, what each
\* get_best_regex returned and what the cache was after each.
NothingSeen == [runs |-> 0, returned |-> <<>>, cached |-> <<>>]

Seen(h, ran, r, cache) ==
    [runs     |-> IF ran THEN h.runs + 1 ELSE h.runs,
     returned |-> Append(h.returned, r),
     cached   |-> Append(h.cached, cache)]

InstanceInit ==
    /\ item = StrVal(<<>>)
    /\ textos = <<>>
    /\ fn = "none"
    /\ result = NoResult
    /\ hist = [k \in Instances |-> NothingSeen]
    /\ svc = [k \in Instances |-> NoInstance]

\* RegexAnalyzerService(palavra_alvo, textos_de_exemplo)
ConstructWordAnalyzer ==
    /\ \E k \in Instances, w \in InstanceWords, c \in InstanceCorpora :
          /\ svc[k].class = "none"
          /\ ~WordInitFails(w, c)
          /\ svc' = [svc EXCEPT ![k] = NewInstance("RegexAnalyzerService", w, c)]
    /\ UNCHANGED <<item, textos, fn, result, hist>>

\* TemplateAnalyzerService(template_string, textos_de_exemplo)
ConstructTemplateAnalyzer ==
    /\ \E k \in Instances, t \in InstanceTemplates, c \in InstanceCorpora :
          /\ svc[k].class = "none"
          /\ ~TemplateInitFails(t, c)
          /\ svc' = [svc EXCEPT ![k] = NewInstance("TemplateAnalyzerService", t, c)]
    /\ UNCHANGED <<item, textos, fn, result, hist>>

\* A variant that takes the cache to be unset whatever it holds.
AlwaysNone(ranked_results) == TRUE

\* self._ranked_results is None
IsNone(ranked_results) == ~ranked_results.set

\* The rest of get_best_regex once _get_ranked_results has the list: the
\* list is the cache and its first pattern, or the default, is returned.
GetBestRegexWith(k, ran, ranked, default) ==
    /\ svc' = [svc EXCEPT ![k].ranked_results = Cached(ranked)]
    /\ hist' = [hist EXCEPT ![k] = Seen(@, ran, RetStr(BestRegexOr(ranked, default)),
                                        Cached(ranked))]

\* analyze_and_rank raises inside _get_ranked_results: nothing is assigned.
GetBestRegexRaises(k) ==
    /\ hist' = [hist EXCEPT ![k] = Seen(@, TRUE, Raises("ValueError"), svc[k].ranked_results)]
    /\ UNCHANGED svc

\* RegexAnalyzerService.get_best_regex
WordInstanceGetBestRegex ==
    /\ \E k \in Instances :
          /\ svc[k].class = "RegexAnalyzerService"
          /\ Len(hist[k].returned) < MaxCalls
          /\ GetBestRegexWith(k, IsNone(svc[k].ranked_results),
                 IF IsNone(svc[k].ranked_results)
                 THEN WordAnalyzeAndRank(svc[k].target, svc[k].textos_de_exemplo)
                 ELSE svc[k].ranked_results.val,
                 WordBoundary \o Escape(svc[k].target) \o WordBoundary)
    /\ UNCHANGED <<item, textos, fn, result>>

\* TemplateAnalyzerService.get_best_regex
TemplateInstanceGetBestRegex ==
    /\ \E k \in Instances :
          /\ svc[k].class = "TemplateAnalyzerService"
          /\ Len(hist[k].returned) < MaxCalls
          /\ IF IsNone(svc[k].ranked_results) /\ TemplateInvalid(svc[k].target)
             THEN GetBestRegexRaises(k)
             ELSE GetBestRegexWith(k, IsNone(svc[k].ranked_results),
                      IF IsNone(svc[k].ranked_results)
                      THEN TemplateAnalyzeAndRank(svc[k].target, svc[k].textos_de_exemplo)
                      ELSE svc[k].ranked_results.val,
                      <<>>)
    /\ UNCHANGED <<item, textos, fn, result>>

InstanceNext ==
    \/ ConstructWordAnalyzer
    \/ ConstructTemplateAnalyzer
    \/ WordInstanceGetBestRegex
    \/ TemplateInstanceGetBestRegex

SpecInstance == InstanceInit /\ [][InstanceNext]_vars

(***************************************************************************)
(* A session: facade calls one after the other, each with its own          *)
(* arguments.  svc holds the analyzers the calls have built, in the order  *)
(* of the calls and as the calls left them; hist is the log of the calls   *)
(* and of what they returned                                               *)
(***************************************************************************)

MaxSessionCalls == 3

\* A keyword and a template, neither empty.
SessionItems == {StrVal(<<"a">>), StrVal(<<"[", "n", "]", "a">>)}

\* Two corpora, neither empty: __init__ does not raise in a session.
SessionCorpora == {<< <<"a">> >>, << <<"b">>, <<"b", "a">> >>}

Logged(f, i, t, r) == [fn |-> f, item |-> i, textos |-> t, result |-> r]

\* A variant in which the analyzer of a class is built once and shared by
\* the calls that follow.
SharedAnalyzer(built, class, target, corpus) ==
    IF \E k \in 1..Len(built) : built[k].class = class
    THEN built[CHOOSE k \in 1..Len(built) :
                   built[k].class = class /\ \A j \in (k + 1)..Len(built) : built[j].class # class]
    ELSE NewInstance(class, target, corpus)

\* service = RegexAnalyzerService(item, textos), or TemplateAnalyzerService:
\* the analyzer of a call is built in the call, from its arguments, whatever
\* analyzers were built before.
AnalyzerOfCall(built, class, target, corpus) == NewInstance(class, target, corpus)

\* self.analyze_and_rank(): the list is computed from the fields of the
\* instance.
InstanceAnalyzeAndRank(s) ==
    IF s.class = "TemplateAnalyzerService"
    THEN IF TemplateInvalid(s.target) THEN Raises("ValueError")
         ELSE RetRank(TemplateAnalyzeAndRank(s.target, s.textos_de_exemplo))
    ELSE RetRank(WordAnalyzeAndRank(s.target, s.textos_de_exemplo))

\* The instance after self._get_ranked_results(): an unset cache is set to
\* the list analyze_and_rank returns, and stays unset when it raises.
AfterGetRankedResults(s) ==
    IF IsNone(s.ranked_results) /\ InstanceAnalyzeAndRank(s).kind = "rank"
    THEN [s EXCEPT !.ranked_results = Cached(InstanceAnalyzeAndRank(s).val)]
    ELSE s

\* What get_best_regex ends with on the instance it has left.
InstanceBestRegex(s, default) ==
    IF s.ranked_results.set THEN RetStr(BestRegexOr(s.ranked_results.val, default))
    ELSE Raises("ValueError")

\* except ValueError of regex_words and regex_context.
OrOnValueError(r, fallback) == IF r.kind = "raise" THEN RetStr(fallback) ELSE r

\* except ValueError as e of regex_rank, for the error analyze_and_rank
\* raises.
OrErrorEntry(r) ==
    IF r.kind = "raise" THEN RetRank(<<ErrorEntry(MsgTemplateInvalido)>>) ELSE r

SessionInit ==
    /\ item = StrVal(<<>>)
    /\ textos = <<>>
    /\ fn = "none"
    /\ result = NoResult
    /\ hist = <<>>
    /\ svc = <<>>

\* regex_words with a string: the analyzer is built and get_best_regex sets
\* its cache.
SessionRegexWords ==
    /\ Len(hist) < MaxSessionCalls
    /\ \E i \in SessionItems, t \in SessionCorpora :
          /\ item' = i
          /\ textos' = t
          /\ fn' = "regex_words"
          /\ svc' = Append(svc, AfterGetRankedResults(
                                    AnalyzerOfCall(svc, "RegexAnalyzerService", i.v, t)))
          /\ result' = OrOnValueError(
                           InstanceBestRegex(svc'[Len(svc')],
                                             FallbackPattern(svc'[Len(svc')].target)),
                           FallbackPattern(i.v))
          /\ hist' = Append(hist, Logged("regex_words", i, t, result'))

\* regex_context with a string.
SessionRegexContext ==
    /\ Len(hist) < MaxSessionCalls
    /\ \E i \in SessionItems, t \in SessionCorpora :
          /\ item' = i
          /\ textos' = t
          /\ fn' = "regex_context"
          /\ svc' = Append(svc, AfterGetRankedResults(
                                    AnalyzerOfCall(svc, "TemplateAnalyzerService", i.v, t)))
          /\ result' = OrOnValueError(InstanceBestRegex(svc'[Len(svc')], <<>>), <<>>)
          /\ hist' = Append(hist, Logged("regex_context", i, t, result'))

\* regex_rank with a string: the analyzer of the class the brackets of the
\* item select is built, and analyze_and_rank is called on it, which leaves
\* its cache unset.
SessionRegexRank ==
    /\ Len(hist) < MaxSessionCalls
    /\ \E i \in SessionItems, t \in SessionCorpora :
          /\ item' = i
          /\ textos' = t
          /\ fn' = "regex_rank"
          /\ svc' = Append(svc, AnalyzerOfCall(svc,
                                    IF IsTemplateItem(i.v) THEN "TemplateAnalyzerService"
                                    ELSE "RegexAnalyzerService", i.v, t))
          /\ result' = OrErrorEntry(InstanceAnalyzeAndRank(svc'[Len(svc')]))
          /\ hist' = Append(hist, Logged("regex_rank", i, t, result'))

SessionNext ==
    \/ SessionRegexWords
    \/ SessionRegexContext
    \/ SessionRegexRank

SpecSession == SessionInit /\ [][SessionNext]_vars

(***************************************************************************)
(* The methods of RegexAnalyzerService on texts with both cases            *)
(***************************************************************************)

\* The corpus has size at most MaxWordCorpus.
MaxWordCorpus == 5

\* The characters of the texts: the keyword in both cases, another letter
\* and a blank.
WordChars == {"a", "A", "b", " "}

RECURSIVE WordCorporaUpTo(_)
\* The corpora of size at most n, a text of k characters counting k + 1.
WordCorporaUpTo(n) ==
    {<<>>} \cup UNION {{<<t>> \o c : t \in [1..k -> WordChars], c \in WordCorporaUpTo(n - k - 1)} :
                         k \in 0..(n - 1)}

RetNeighbors(viz) == [kind |-> "neighbors", val |-> viz]

\* A candidate whose pattern raises re.error.
FailingCandidate == Candidate(<<"Invalida">>, <<"(">>, TRUE)

\* The list with x put at position k.
InsertAt(xs, k, x) == SubSeq(xs, 1, k - 1) \o <<x>> \o SubSeq(xs, k, Len(xs))

WordInit ==
    /\ item = StrVal(<<"a">>)
    /\ textos \in WordCorporaUpTo(MaxWordCorpus)
    /\ fn = "none"
    /\ result = NoResult
    /\ hist = <<>>
    /\ svc = <<>>

\* RegexAnalyzerService(item, textos)._find_neighboring_chars()
CallFindNeighboringChars ==
    /\ ~WordInitFails(item.v, textos)
    /\ fn' = "RegexAnalyzerService._find_neighboring_chars"
    /\ result' = RetNeighbors(FindNeighboringChars(item.v, textos))
    /\ hist' = <<>>
    /\ UNCHANGED <<item, textos, svc>>

\* RegexAnalyzerService(item, textos).analyze_and_rank()
CallAnalyzeAndRank ==
    /\ ~WordInitFails(item.v, textos)
    /\ fn' = "RegexAnalyzerService.analyze_and_rank"
    /\ result' = RetRank(WordAnalyzeAndRank(item.v, textos))
    /\ hist' = <<>>
    /\ UNCHANGED <<item, textos, svc>>

\* analyze_and_rank on an analyzer whose _generate_candidate_strategies is
\* overridden to put, at position k of the generated list, a candidate whose
\* pattern does not compile (every generated pattern goes through re.escape
\* and compiles); hist records k.
AnalyzeWith(candidatas, k) ==
    /\ fn' = "RegexAnalyzerService.analyze_and_rank"
    /\ result' = RetRank(RankCandidates(InsertAt(candidatas, k, FailingCandidate), textos))
    /\ hist' = <<k>>
    /\ UNCHANGED <<item, textos, svc>>

CallAnalyzeAndRankWithFailure ==
    /\ ~WordInitFails(item.v, textos)
    /\ \E k \in 1..3 : AnalyzeWith(GenerateCandidateStrategies(item.v, textos), k)

WordNext ==
    \/ CallFindNeighboringChars
    \/ CallAnalyzeAndRank
    \/ CallAnalyzeAndRankWithFailure

SpecWord == WordInit /\ [][WordNext]_vars

(***************************************************************************)
(* The two string helpers of RegexAnalyzerService on lists of strings      *)
(***************************************************************************)

\* The list of strings has size at most MaxStringsSize.
MaxStringsSize == 6

StringChars == {"a", "b"}

RECURSIVE StringListsUpTo(_)
\* The lists of size at most n, a string of k characters counting k + 1.
StringListsUpTo(n) ==
    {<<>>} \cup UNION {{<<t>> \o c : t \in [1..k -> StringChars], c \in StringListsUpTo(n - k - 1)} :
                         k \in 0..(n - 1)}

\* textos holds the list the helper is called on.
StringsInit ==
    /\ item = StrVal(<<"a">>)
    /\ textos \in StringListsUpTo(MaxStringsSize)
    /\ fn = "none"
    /\ result = NoResult
    /\ hist = <<>>
    /\ svc = <<>>

\* _find_longest_common_prefix(textos)
CallFindLongestCommonPrefix ==
    /\ fn' = "RegexAnalyzerService._find_longest_common_prefix"
    /\ result' = RetStr(FindLongestCommonPrefix(textos))
    /\ UNCHANGED <<item, textos, hist, svc>>

\* _find_longest_common_suffix(textos)
CallFindLongestCommonSuffix ==
    /\ fn' = "RegexAnalyzerService._find_longest_common_suffix"
    /\ result' = RetStr(FindLongestCommonSuffix(textos))
    /\ UNCHANGED <<item, textos, hist, svc>>

StringsNext ==
    \/ CallFindLongestCommonPrefix
    \/ CallFindLongestCommonSuffix

SpecStrings == StringsInit /\ [][StringsNext]_vars

(***************************************************************************)
(* Properties                                                              *)
(***************************************************************************)

Functions == {"regex_words", "regex_context", "regex_rank"}

\* The function fn applied to its two arguments.
Call(f, arg, corpus) ==
    CASE f = "regex_words"   -> RegexWords(arg, corpus)
      [] f = "regex_context" -> RegexContext(arg, corpus)
      [] OTHER               -> RegexRank(arg, corpus)

IsStrList(arg) == arg.kind = "list" /\ \A i \in 1..Len(arg.v) : arg.v[i].kind = "str"

\* The string holds a bracket-delimited marker: a "[" and a "]" after it on
\* the same line.
HasMarker(s) ==
    \E i \in 1..Len(s) : \E j \in (i + 1)..Len(s) :
        s[i] = "[" /\ s[j] = "]" /\ \A k \in (i + 1)..(j - 1) : s[k] # "\n"

\* An entry of a ranked list that evaluates a pattern (not an error entry).
IsEvaluation(e) == "regex" \in DOMAIN e

IsErrorList(r) == Len(r) = 1 /\ "error" \in DOMAIN r[1]

\* The ranked lists the call returned, each with the item it ranks.
RankedPairs ==
    IF result.kind = "rank" THEN {<<item, result.val>>}
    ELSE IF result.kind = "map" /\ fn = "regex_rank"
    THEN {<<x, result.val[x]>> : x \in DOMAIN result.val}
    ELSE {}

NoDuplicateRegex(r) ==
    \A i \in 1..Len(r) : \A j \in (i + 1)..Len(r) :
        (IsEvaluation(r[i]) /\ IsEvaluation(r[j])) => r[i].regex # r[j].regex

\* The pattern occurs at two places of the list.
OccursTwice(pattern, r) ==
    \E i \in 1..Len(r) : \E j \in (i + 1)..Len(r) :
        /\ IsEvaluation(r[i]) /\ IsEvaluation(r[j])
        /\ r[i].regex = pattern /\ r[j].regex = pattern

\* C1 as the specification states it: for every item (keyword or template)
\* and every non-empty corpus, the ranked list regex_rank returns holds no
\* two entries with the same regex string.  The keyword path refutes it.
C1_RankHasNoDuplicatePatterns ==
    (fn = "regex_rank" /\ textos # <<>>) =>
        \A p \in RankedPairs : NoDuplicateRegex(p[2])

\* C1, amended: for every non-empty corpus, the ranked list regex_rank
\* returns for an item that holds both "[" and "]" (the template path) has no
\* two entries with the same regex string, while the list it returns for a
\* non-empty keyword (the word path, which removes no duplicates) holds the
\* pattern \b<escaped keyword>\b twice.
C1_OnlyTemplateRanksAreDeduplicated ==
    (fn = "regex_rank" /\ textos # <<>>) =>
        \A p \in RankedPairs :
            /\ IsTemplateItem(p[1].v) => NoDuplicateRegex(p[2])
            /\ (~IsTemplateItem(p[1].v) /\ p[1].v # <<>>) =>
                   OccursTwice(<<"\\", "b">> \o Escape(p[1].v) \o <<"\\", "b">>, p[2])

\* A template whose strategies repeat a pattern has been ranked: the list
\* is shorter than the list of strategies built.
C1_DedupActed ==
    /\ fn = "regex_rank" /\ item.kind = "str" /\ textos # <<>>
    /\ HasMarker(item.v)
    /\ result.kind = "rank" /\ Len(result.val) >= 2
    /\ Len(result.val) < Len(TemplateStrategies(item.v))

\* The index of the "/" of a matches string.
SlashIndex(s) == CHOOSE i \in 1..Len(s) : s[i] = "/"

\* The number of successes an entry reports in "matches".
SuccessCount(e) == StrToInt(SubSeq(e.matches, 1, SlashIndex(e.matches) - 1))

Monotone(r) ==
    \A i \in 1..(Len(r) - 1) :
        (IsEvaluation(r[i]) /\ IsEvaluation(r[i + 1])) =>
            /\ RatingKey(r[i]) >= RatingKey(r[i + 1])
            /\ SuccessCount(r[i]) >= SuccessCount(r[i + 1])

\* C2: in every ranked list returned by the word path, the template path
\* and analisar_template_e_rankear_regex, the success rate of each entry is
\* greater than or equal to the success rate of the entry that follows it.
C2_RankedBySuccessRate == \A p \in RankedPairs : Monotone(p[2])

\* A keyword has been ranked and the sort changed the order of the
\* evaluated candidates.
C2_SortReordered ==
    /\ fn = "regex_rank" /\ item.kind = "str" /\ ~IsTemplateItem(item.v)
    /\ result.kind = "rank" /\ Len(result.val) >= 2 /\ IsEvaluation(result.val[1])
    /\ result.val # EvaluateWordCandidates(
                        Compilable(GenerateCandidateStrategies(item.v, textos)), textos)

\* The pattern is the regex of the first entry of the ranked list, and no
\* entry of the list has a strictly higher success rate.
FirstAndBest(pattern, ranked) ==
    /\ ranked.kind = "rank" /\ ranked.val # <<>>
    /\ \A k \in 1..Len(ranked.val) :
           IsEvaluation(ranked.val[k]) /\ RatingKey(ranked.val[k]) <= RatingKey(ranked.val[1])
    /\ ranked.val[1].regex = pattern

BestIsFirstOfRank == result.kind = "str" /\ FirstAndBest(result.val, RegexRank(item, textos))

\* C3 as the specification states it: for a non-empty keyword (resp. a
\* valid template) and a non-empty corpus, the string regex_words (resp.
\* regex_context) returns is the regex of the first entry of the list
\* regex_rank returns for the same arguments, and no entry of that list has
\* a strictly higher success rate.  A keyword with both brackets refutes it.
C3_BestIsFirstOfRank ==
    (/\ item.kind = "str" /\ textos # <<>>
     /\ \/ fn = "regex_words" /\ item.v # <<>>
        \/ fn = "regex_context" /\ HasMarker(item.v))
    => BestIsFirstOfRank

\* C3, amended: the same, for a non-empty keyword that does not hold both
\* "[" and "]" (regex_rank sends an item with both to the template path)
\* and for a valid template.
C3_BestIsFirstOfRankSamePath ==
    (/\ item.kind = "str" /\ textos # <<>>
     /\ \/ fn = "regex_words" /\ item.v # <<>> /\ ~IsTemplateItem(item.v)
        \/ fn = "regex_context" /\ HasMarker(item.v))
    => BestIsFirstOfRank

\* regex_words returned, for a keyword, a pattern learned from the corpus.
C3_LearnedPatternIsBest ==
    /\ fn = "regex_words" /\ item.kind = "str" /\ item.v # <<>>
    /\ ~IsTemplateItem(item.v) /\ textos # <<>>
    /\ result.kind = "str"
    /\ result.val # <<"\\", "b">> \o Escape(item.v) \o <<"\\", "b">>

\* The list without the elements equal to x.
Without(xs, x) == SelectSeq(xs, LAMBDA y : y # x)

\* What an invalid template maps to: the empty string, or the list of one
\* error entry.
IsInvalidMarker(f, v) == IF f = "regex_context" THEN v = <<>> ELSE IsErrorList(v)

\* An invalid template for f: no marker, and for regex_rank an item that is
\* sent to the template path.
IsInvalidFor(f, s) == ~HasMarker(s) /\ (f = "regex_rank" => IsTemplateItem(s))

\* The mapping holds, for every key but x, the value of the call without x.
SameWithout(x, other) ==
    /\ other.kind = "map"
    /\ \A y \in Keys(item.v) \ {x} : result.val[y] = other.val[y]

\* C4: in a batch call of regex_context or regex_rank over a list of
\* strings with a non-empty corpus, an invalid template among the items
\* does not abort the call: the result is a mapping with an entry for every
\* item, the invalid item maps to its empty or error marker, and every
\* other item maps to the value it gets when the invalid item is absent.
C4_InvalidTemplateDoesNotAbortBatch ==
    (fn \in {"regex_context", "regex_rank"} /\ IsStrList(item) /\ textos # <<>>) =>
        \A x \in Keys(item.v) :
            IsInvalidFor(fn, x.v) =>
                /\ result.kind = "map"
                /\ DOMAIN result.val = Keys(item.v)
                /\ IsInvalidMarker(fn, result.val[x])
                /\ SameWithout(x, Call(fn, ListVal(Without(item.v, x)), textos))

\* A batch of regex_rank held an invalid template and a valid one, and the
\* valid one got its ranked list.
C4_SiblingRanked ==
    /\ fn = "regex_rank" /\ IsStrList(item) /\ textos # <<>>
    /\ result.kind = "map"
    /\ \E x \in Keys(item.v) : \E y \in Keys(item.v) :
           /\ IsInvalidFor(fn, x.v) /\ HasMarker(y.v)
           /\ IsErrorList(result.val[x])
           /\ result.val[y] # <<>> /\ IsEvaluation(result.val[y][1])

\* C5: for a single string without a bracket-delimited marker and a
\* non-empty corpus, regex_context returns the empty string and regex_rank,
\* when the item goes to the template path, returns a list of exactly one
\* element that carries an 'error' key; no exception reaches the caller.
C5_InvalidTemplateIsRecovered ==
    (item.kind = "str" /\ ~HasMarker(item.v) /\ textos # <<>>) =>
        /\ fn = "regex_context" => result = RetStr(<<>>)
        /\ (fn = "regex_rank" /\ IsTemplateItem(item.v)) =>
               result.kind = "rank" /\ IsErrorList(result.val)

\* regex_context was called with a non-empty string that holds both
\* brackets and no marker, and returned the empty string.
C5_EmptyPatternReturned ==
    /\ fn = "regex_context" /\ item.kind = "str" /\ textos # <<>>
    /\ IsTemplateItem(item.v) /\ ~HasMarker(item.v)
    /\ result = RetStr(<<>>)

\* The string is one placeholder and nothing else.
IsSinglePlaceholder(s) ==
    /\ Len(s) >= 2 /\ s[1] = "[" /\ s[Len(s)] = "]"
    /\ \A k \in 2..(Len(s) - 1) : s[k] \notin {"[", "]", "\n"}

\* C6 as the specification states it: a template that is a single
\* placeholder without literal text is rejected: _parse_template returns
\* None for it, regex_context returns "" and regex_rank returns the
\* error-tagged entry, for every non-empty corpus.  The code accepts it.
C6_SinglePlaceholderRejected ==
    (/\ item.kind = "str" /\ IsSinglePlaceholder(item.v) /\ textos # <<>>
     /\ fn \in {"regex_context", "regex_rank", "analisar_template_e_rankear_regex"}) =>
        /\ ParseTemplateIsNone(item.v)
        /\ fn = "regex_context" => result = RetStr(<<>>)
        /\ fn = "regex_rank" => (result.kind = "rank" /\ IsErrorList(result.val))
        /\ fn = "analisar_template_e_rankear_regex" => result = RetRank(<<>>)

\* C7: when the keyword is empty or the corpus is empty, regex_words
\* returns the pattern \b<escaped keyword>\b for that keyword and raises
\* nothing, for a single string and for each key of a batch call.
C7_FallbackPattern ==
    fn = "regex_words" =>
        /\ (item.kind = "str" /\ (item.v = <<>> \/ textos = <<>>)) =>
               result = RetStr(<<"\\", "b">> \o Escape(item.v) \o <<"\\", "b">>)
        /\ IsStrList(item) =>
               /\ result.kind = "map"
               /\ DOMAIN result.val = Keys(item.v)
               /\ \A x \in Keys(item.v) :
                      (x.v = <<>> \/ textos = <<>>) =>
                          result.val[x] = <<"\\", "b">> \o Escape(x.v) \o <<"\\", "b">>

\* A batch of regex_words over a non-empty corpus held the empty keyword
\* beside another one, and the empty keyword got its fallback pattern.
C7_EmptyKeywordInBatch ==
    /\ fn = "regex_words" /\ IsStrList(item) /\ Len(item.v) = 2 /\ textos # <<>>
    /\ StrVal(<<>>) \in Keys(item.v) /\ item.v[1] # item.v[2]
    /\ result.kind = "map"
    /\ result.val[StrVal(<<>>)] = <<"\\", "b", "\\", "b">>

\* C8: when regex_rank is called with a list of template items and an empty
\* corpus, every item maps to an empty ranked list and nothing is raised.
C8_EmptyCorpusBatchRank ==
    (/\ fn = "regex_rank" /\ IsStrList(item) /\ textos = <<>>
     /\ \A i \in 1..Len(item.v) : IsTemplateItem(item.v[i].v))
    => /\ result.kind = "map"
       /\ DOMAIN result.val = Keys(item.v)
       /\ \A x \in Keys(item.v) : result.val[x] = <<>>

\* regex_rank was called with two templates, one of them valid, and the
\* empty corpus.
C8_TemplatesWithEmptyCorpus ==
    /\ fn = "regex_rank" /\ IsStrList(item) /\ Len(item.v) = 2 /\ textos = <<>>
    /\ item.v[1] # item.v[2]
    /\ \A i \in 1..Len(item.v) : IsTemplateItem(item.v[i].v)
    /\ \E i \in 1..Len(item.v) : HasMarker(item.v[i].v)
    /\ result.kind = "map" /\ \A x \in Keys(item.v) : result.val[x] = <<>>

\* C9 as the specification states it: for each of the three functions and
\* every corpus, an item that is neither a string nor a list of strings (a
\* list with an element that is no string included) makes the call fail
\* with an error.  A list with such an element and the empty corpus refute
\* it for regex_context and regex_rank.
C9_UnsupportedTypeIsReported ==
    (fn \in Functions /\ item.kind # "str" /\ ~IsStrList(item)) => result.kind = "raise"

\* The call of x alone returned the value v.
Returned(single, v) == single.kind \in {"str", "rank"} /\ single.val = v

BatchAgreesWithSingle ==
    /\ result.kind = "map"
    /\ DOMAIN result.val = Keys(item.v)
    /\ \A x \in Keys(item.v) : Returned(Call(fn, x, textos), result.val[x])

\* C10 as the specification states it: for each of the three functions,
\* every list of strings and every corpus (the empty one included), the
\* value of an item in the batch result equals the result of the call with
\* that item alone and the same corpus.  regex_rank with the empty corpus
\* refutes it.
C10_BatchEqualsSingle ==
    (fn \in Functions /\ IsStrList(item)) => BatchAgreesWithSingle

\* C10, amended: the same for regex_words and regex_context with every
\* corpus, and for regex_rank with every non-empty corpus.
C10_BatchEqualsSingleButEmptyRank ==
    (fn \in Functions /\ IsStrList(item) /\ (fn = "regex_rank" => textos # <<>>))
    => BatchAgreesWithSingle

\* A batch of regex_rank over a non-empty corpus gave two items different
\* ranked lists.
C10_TwoItemsRanked ==
    /\ fn = "regex_rank" /\ IsStrList(item) /\ Len(item.v) = 2 /\ textos # <<>>
    /\ result.kind = "map"
    /\ result.val[item.v[1]] # result.val[item.v[2]]
    /\ \A i \in 1..2 : result.val[item.v[i]] # <<>> /\ IsEvaluation(result.val[item.v[i]][1])

\* C11: for a batch call of any of the three facade functions with a list
\* of strings, the key set of the returned mapping is exactly the set of the
\* input strings (no key added, none missing, repeated items giving one
\* key), for an empty and for a non-empty corpus.
C11_KeysAreTheInputStrings ==
    (fn \in Functions /\ IsStrList(item)) =>
        /\ result.kind = "map"
        /\ \A i \in 1..Len(item.v) : item.v[i] \in DOMAIN result.val
        /\ \A x \in DOMAIN result.val : \E i \in 1..Len(item.v) : item.v[i] = x

\* A batch over a keyword and a template returned a mapping with exactly
\* those two keys.
C11_KeywordAndTemplateKeys ==
    /\ fn \in Functions /\ IsStrList(item) /\ Len(item.v) = 2
    /\ ~HasMarker(item.v[1].v) /\ item.v[1].v # <<>> /\ HasMarker(item.v[2].v)
    /\ result.kind = "map"
    /\ DOMAIN result.val = {item.v[1], item.v[2]}
    /\ Cardinality(DOMAIN result.val) = 2

\* The first pieces of the labels the keyword analyzer gives its candidates.
WordLabels ==
    {"Borda de Palavra Simples (ignora maiusculas/minusculas)",
     "Correspondencia Exata (sensivel a maiusculas/minusculas)",
     "Precedido pelo caractere mais comum ('",
     "Seguido pelo caractere mais comum ('",
     "Cercado pelos caracteres mais comuns ('",
     "Contexto Otimizado (aprendido dos exemplos)"}

\* The labels the template analyzer gives its candidates.
TemplateLabels ==
    {"Contexto Completo", "Ancorado no Inicio", "Ancorado no Fim",
     "Contexto Minimo (entre marcadores)"}

\* The list is what an analyzer with these labels and these error messages
\* answers: its error entry, or evaluations that all carry its labels.
AnsweredBy(r, labels, errors) ==
    /\ r # <<>>
    /\ \/ IsErrorList(r) /\ r[1].error \in errors
       \/ \A k \in 1..Len(r) : IsEvaluation(r[k]) /\ r[k].estrategia[1] \in labels

\* C12: regex_rank routes a single item to the template analyzer exactly
\* when the item contains both the character "[" and the character "]", in
\* any order and position, and to the keyword analyzer in every other case.
C12_DispatchOnBothBrackets ==
    (fn = "regex_rank" /\ item.kind = "str") =>
        /\ result.kind = "rank"
        /\ IF (\E i \in 1..Len(item.v) : item.v[i] = "[")
                /\ (\E j \in 1..Len(item.v) : item.v[j] = "]")
           THEN AnsweredBy(result.val, TemplateLabels, {MsgTemplateVazio, MsgTemplateInvalido})
           ELSE AnsweredBy(result.val, WordLabels, {MsgPalavraVazia})

\* An item with "]" before "[" and no marker went to the template analyzer.
C12_ReversedBracketsAreATemplate ==
    /\ fn = "regex_rank" /\ item.kind = "str" /\ textos # <<>>
    /\ \E i \in 1..Len(item.v) : \E j \in (i + 1)..Len(item.v) :
           item.v[i] = "]" /\ item.v[j] = "["
    /\ ~HasMarker(item.v)
    /\ result = RetRank(<<ErrorEntry(MsgTemplateInvalido)>>)

\* The labels of a list of candidates or of evaluations.
LabelsOf(r) == [k \in 1..Len(r) |-> r[k].estrategia]

\* The labels of the candidates of an item in the order they are generated.
GeneratedLabels(x, corpus) ==
    IF IsTemplateItem(x) THEN LabelsOf(TemplateBuildRegexStrategies(x))
    ELSE LabelsOf(GenerateCandidateStrategies(x, corpus))

PositionIn(labels, l) == CHOOSE k \in 1..Len(labels) : labels[k] = l

\* Entries with equal rating stand in the order of the labels.
TiesFollow(r, labels) ==
    \A i \in 1..Len(r) : \A j \in (i + 1)..Len(r) :
        RatingKey(r[i]) = RatingKey(r[j]) =>
            PositionIn(labels, r[i].estrategia) < PositionIn(labels, r[j].estrategia)

IsEvaluationList(r) == r # <<>> /\ \A k \in 1..Len(r) : IsEvaluation(r[k])

\* C16: in every ranked list of the word path and of the template path, two
\* entries with equal success rate appear in the order in which their
\* candidates were generated (the descending sort is stable).
C16_TiesKeepGenerationOrder ==
    fn = "regex_rank" =>
        \A p \in RankedPairs :
            IsEvaluationList(p[2]) => TiesFollow(p[2], GeneratedLabels(p[1].v, textos))

\* A ranked list holds a tie and an entry the sort moved ahead of an entry
\* generated before it.
C16_TieBesideMovedEntry ==
    /\ fn = "regex_rank" /\ item.kind = "str" /\ result.kind = "rank"
    /\ IsEvaluationList(result.val)
    /\ \E i \in 1..Len(result.val) : \E j \in (i + 1)..Len(result.val) :
           RatingKey(result.val[i]) = RatingKey(result.val[j])
    /\ LabelsOf(result.val) # GeneratedLabels(item.v, textos)

\* The number of corpus texts the pattern of an entry is found in, under the
\* flags of its strategy: the exact match is case-sensitive, and the
\* template strategies let "." match a line break.
TextsMatching(e, corpus) ==
    Cardinality({k \in 1..Len(corpus) :
        Search(e.regex, corpus[k],
               e.estrategia[1] # "Correspondencia Exata (sensivel a maiusculas/minusculas)",
               e.estrategia[1] \notin WordLabels)})

\* The two strings of an entry report s successes out of t texts: "s/t" and
\* s/t*100 with two decimals and a percent sign.
Reports(e, s, t) ==
    /\ 0 <= s /\ s <= t
    /\ e.matches = IntToStr(s) \o <<"/">> \o IntToStr(t)
    /\ Len(e.rating_sucesso) >= 5
    /\ e.rating_sucesso[Len(e.rating_sucesso)] = "%"
    /\ e.rating_sucesso[Len(e.rating_sucesso) - 3] = "."
    /\ 2 * (RatingKey(e) * t - s * 10000) <= t
    /\ 2 * (s * 10000 - RatingKey(e) * t) <= t

\* C17: in every ranked entry, 'matches' is "s/t" where t is the number of
\* corpus texts and s the number of corpus texts in which the pattern
\* matches at least once, so 0 <= s <= t, and 'rating_sucesso' is s/t*100
\* rendered with two decimals followed by "%".
C17_MatchesAndRating ==
    \A p \in RankedPairs :
        \A k \in 1..Len(p[2]) :
            IsEvaluation(p[2][k]) =>
                Reports(p[2][k], TextsMatching(p[2][k], textos), Len(textos))

\* A pattern found in one of two texts is reported as "1/2" and "50.00%".
C17_OneOfTwo ==
    /\ fn = "regex_rank" /\ item.kind = "str" /\ Len(textos) = 2
    /\ result.kind = "rank"
    /\ \E k \in 1..Len(result.val) :
           /\ IsEvaluation(result.val[k])
           /\ TextsMatching(result.val[k], textos) = 1
           /\ result.val[k].matches = <<"1", "/", "2">>
           /\ result.val[k].rating_sucesso = <<"5", "0", ".", "0", "0", "%">>

\* A literal segment: not empty, without brackets.
IsLiteral(l) == l # <<>> /\ \A k \in 1..Len(l) : l[k] \notin {"[", "]"}

\* The Full-Context pattern of a template of one placeholder and one
\* literal: the capture group and the escaped trimmed literal, those that
\* are not empty, joined by \s*.
FullPatternOf(lit, markerFirst) ==
    JoinWith(<<"\\", "s", "*">>,
             FilterNonEmpty(IF markerFirst
                            THEN <<CaptureGroup, Escape(Strip(lit))>>
                            ELSE <<Escape(Strip(lit)), CaptureGroup>>))

HasFullContext(c, pattern) ==
    \E k \in 1..Len(c) : c[k].estrategia = <<"Contexto Completo">> /\ c[k].regex = pattern

\* C14 as the specification states it: for every valid template with
\* exactly one placeholder and one literal segment (a literal that is only
\* whitespace included), the candidate set
\* TemplateAnalyzerService._build_regex_strategies returns holds an entry
\* labelled 'Contexto Completo' whose pattern is the Full-Context pattern.
\* A whitespace literal refutes it: the entry carries a later label.
C14_FullContextPresent ==
    fn = "TemplateAnalyzerService._build_regex_strategies" =>
        \A k \in 1..(Len(item.v) - 1) :
            /\ (IsSinglePlaceholder(SubSeq(item.v, 1, k))
                    /\ IsLiteral(SubSeq(item.v, k + 1, Len(item.v)))) =>
                   /\ result.kind = "candidates"
                   /\ HasFullContext(result.val,
                                     FullPatternOf(SubSeq(item.v, k + 1, Len(item.v)), TRUE))
            /\ (IsLiteral(SubSeq(item.v, 1, k))
                    /\ IsSinglePlaceholder(SubSeq(item.v, k + 1, Len(item.v)))) =>
                   /\ result.kind = "candidates"
                   /\ HasFullContext(result.val, FullPatternOf(SubSeq(item.v, 1, k), FALSE))

\* The label of the first candidate generated with the pattern.
FirstLabelOf(generated, pattern) ==
    generated[SetMin({k \in 1..Len(generated) : generated[k].regex = pattern})].estrategia

\* The set holds one entry for each non-empty pattern generated, under the
\* label of the first candidate generated with that pattern.
KeepsFirstLabels(c, generated) ==
    /\ NoDuplicateRegex(c)
    /\ {c[k].regex : k \in 1..Len(c)}
           = {generated[k].regex : k \in 1..Len(generated)} \ {<<>>}
    /\ \A k \in 1..Len(c) : c[k].estrategia = FirstLabelOf(generated, c[k].regex)

\* C15 as the specification states it: when two template-based candidates
\* have the same pattern string, the deduplicated candidate set keeps one
\* entry for that pattern and its label is the label of the candidate
\* generated first.  TemplateAnalyzerService keeps the label generated last.
C15_FirstLabelKept ==
    result.kind = "candidates" =>
        /\ fn = "TemplateAnalyzerService._build_regex_strategies" =>
               KeepsFirstLabels(result.val, TemplateStrategies(item.v))
        /\ fn = "_build_regex_strategies" =>
               KeepsFirstLabels(result.val, GeneratedByModule(SplitTemplate(item.v)))

\* The first piece of the label of each candidate.
KindsOf(c) == [k \in 1..Len(c) |-> c[k].estrategia[1]]

\* The kinds of the candidates that the observed neighbours call for, in
\* the order of the strategies.
ExpectedKinds(viz) ==
    <<"Borda de Palavra Simples (ignora maiusculas/minusculas)",
      "Correspondencia Exata (sensivel a maiusculas/minusculas)">>
    \o (IF viz.prefixos # <<>> THEN <<"Precedido pelo caractere mais comum ('">> ELSE <<>>)
    \o (IF viz.sufixos # <<>> THEN <<"Seguido pelo caractere mais comum ('">> ELSE <<>>)
    \o (IF viz.prefixos # <<>> /\ viz.sufixos # <<>>
        THEN <<"Cercado pelos caracteres mais comuns ('">> ELSE <<>>)

\* The kinds are the expected ones, followed by the learned context or by
\* nothing.
KindsAre(kinds, expected) ==
    \/ kinds = expected
    \/ kinds = expected \o <<"Contexto Otimizado (aprendido dos exemplos)">>

\* C19: the word-based candidate list is generated in the order
\* simple-boundary, exact-match, most-common-prefix, most-common-suffix,
\* surrounded, learned-context; the first two are always present, the
\* prefix candidate exactly when a prefix character was observed, the
\* suffix candidate exactly when a suffix character was observed, and the
\* surrounded candidate exactly when both were.
C19_CandidateOrder ==
    fn = "RegexAnalyzerService._generate_candidate_strategies" =>
        /\ result.kind = "candidates"
        /\ KindsAre(KindsOf(result.val), ExpectedKinds(FindNeighboringChars(item.v, textos)))

\* All six candidates were generated.
C19_AllSixGenerated ==
    /\ fn = "RegexAnalyzerService._generate_candidate_strategies"
    /\ result.kind = "candidates" /\ Len(result.val) = 6
    /\ result.val[5].estrategia[1] = "Cercado pelos caracteres mais comuns ('"
    /\ result.val[6].estrategia[1] = "Contexto Otimizado (aprendido dos exemplos)"

Occurrences(chars, c) == Cardinality({i \in 1..Len(chars) : chars[i] = c})

\* c is, among the characters observed most often, the one observed first.
MostFrequentFirstSeen(c, chars) ==
    \E i \in 1..Len(chars) :
        /\ chars[i] = c
        /\ \A j \in 1..Len(chars) : Occurrences(chars, chars[j]) <= Occurrences(chars, c)
        /\ \A j \in 1..(i - 1) : Occurrences(chars, chars[j]) < Occurrences(chars, c)

\* The characters a candidate names are the most frequent first-seen
\* prefix and suffix, and its pattern is built from them.
UsesMostCommon(e, word, viz) ==
    /\ e.estrategia[1] = "Precedido pelo caractere mais comum ('" =>
           /\ MostFrequentFirstSeen(e.estrategia[2], viz.prefixos)
           /\ e.regex = Escape(<<e.estrategia[2]>>) \o <<"\\", "s", "*">>
                            \o Escape(word) \o <<"\\", "b">>
    /\ e.estrategia[1] = "Seguido pelo caractere mais comum ('" =>
           /\ MostFrequentFirstSeen(e.estrategia[2], viz.sufixos)
           /\ e.regex = <<"\\", "b">> \o Escape(word) \o <<"\\", "s", "*">>
                            \o Escape(<<e.estrategia[2]>>)
    /\ e.estrategia[1] = "Cercado pelos caracteres mais comuns ('" =>
           /\ MostFrequentFirstSeen(e.estrategia[2], viz.prefixos)
           /\ MostFrequentFirstSeen(e.estrategia[4], viz.sufixos)
           /\ e.regex = Escape(<<e.estrategia[2]>>) \o <<"\\", "s", "*">> \o Escape(word)
                            \o <<"\\", "s", "*">> \o Escape(<<e.estrategia[4]>>)

AllUseMostCommon(c, word, viz) == \A k \in 1..Len(c) : UsesMostCommon(c[k], word, viz)

\* C20: the character used by the most-common-prefix (resp. suffix)
\* candidate is a character of maximal frequency among the observed prefix
\* (resp. suffix) characters, among those of equal maximal frequency the
\* one observed first; the surrounded candidate uses the same two
\* characters.
C20_MostCommonNeighbours ==
    (fn = "RegexAnalyzerService._generate_candidate_strategies" /\ result.kind = "candidates") =>
        AllUseMostCommon(result.val, item.v, FindNeighboringChars(item.v, textos))

\* Two prefix characters were observed equally often, the candidate names
\* the one observed first, and a surrounded candidate was generated too.
TieDecided(c, prefixos) ==
    /\ Len(prefixos) >= 2 /\ prefixos[1] # prefixos[2]
    /\ Occurrences(prefixos, prefixos[1]) = Occurrences(prefixos, prefixos[2])
    /\ MostFrequentFirstSeen(prefixos[1], prefixos)
    /\ Len(c) >= 5
    /\ c[3].estrategia[2] = prefixos[1] /\ c[5].estrategia[2] = prefixos[1]

C20_TieGoesToFirstSeen ==
    /\ fn = "RegexAnalyzerService._generate_candidate_strategies"
    /\ result.kind = "candidates"
    /\ TieDecided(result.val, FindNeighboringChars(item.v, textos).prefixos)

\* Two logged calls of regex_rank had equal arguments.
SameRankCall(a, b) ==
    /\ a.fn = "regex_rank" /\ b.fn = "regex_rank"
    /\ a.item = b.item /\ a.textos = b.textos

    /\ svc[2].class = svc[3].class
    /\ svc[2].ranked_results.set /\ svc[2].ranked_results.val # hist[3].result.val
    /\ hist[3].result.kind = "rank" /\ Len(hist[3].result.val) >= 2
    /\ result = hist[3].result

\* The ranked list of the instance's own arguments.
OwnAnalysis(s) ==
    IF s.class = "RegexAnalyzerService"
    THEN WordAnalyzeAndRank(s.target, s.textos_de_exemplo)
    ELSE TemplateAnalyzeAndRank(s.target, s.textos_de_exemplo)

\* The life of the cache of one instance, from what was seen of it.
Lifecycle(s, h) ==
    /\ h.runs <= 1
    /\ h.returned = <<>> => ~s.ranked_results.set /\ h.runs = 0
    /\ h.returned # <<>> =>
           /\ s.ranked_results.set
           /\ h.runs = 1
           /\ s.ranked_results.val = OwnAnalysis(s)
           /\ \A j \in 1..Len(h.cached) : h.cached[j] = s.ranked_results
           /\ \A j \in 1..Len(h.returned) :
                  h.returned[j].kind = "str" /\ h.returned[j] = h.returned[1]

\* analyze_and_rank does not raise on the instance.
Analyzable(s) ==
    \/ s.class = "RegexAnalyzerService"
    \/ s.class = "TemplateAnalyzerService" /\ ~TemplateInvalid(s.target)

\* What was seen of an instance on which analyze_and_rank raises: every
\* get_best_regex ran it again, raised ValueError and left the cache unset.
NeverCached(s, h) ==
    /\ ~s.ranked_results.set
    /\ h.runs = Len(h.returned)
    /\ \A j \in 1..Len(h.returned) :
           h.returned[j] = Raises("ValueError") /\ h.cached[j] = Unset

\* C18, amended: over any sequence of get_best_regex calls on an instance,
\* if the instance is a RegexAnalyzerService, or a TemplateAnalyzerService
\* whose template passes the validity test, analyze_and_rank is executed at
\* most once: the cache is unset until the first call, set by it to the
\* ranked list of the instance's own arguments, never changes afterwards
\* and every call returns the same pattern; if it is a
\* TemplateAnalyzerService whose template fails the validity test, every
\* call executes analyze_and_rank again, raises ValueError and leaves the
\* cache unset.
C18_CachedOnceOrNeverCached ==
    \A k \in DOMAIN svc : svc[k].class # "none" =>
        IF Analyzable(svc[k])
        THEN Lifecycle(svc[k], hist[k])
        ELSE NeverCached(svc[k], hist[k])

\* C18 as the specification states it: the same for every analyzer
\* instance.  A TemplateAnalyzerService whose template fails the validity
\* test refutes it: analyze_and_rank raises, the cache stays unset and the
\* next get_best_regex runs it again.
C18_CacheLifecycle ==
    \A k \in DOMAIN svc : svc[k].class # "none" => Lifecycle(svc[k], hist[k])

\* get_best_regex was called twice on two instances: one answered both
\* calls from one run of analyze_and_rank, the other, with a template that
\* fails the validity test, ran it and raised in both.
C18_CachedOnceAndNeverCached ==
    /\ svc["s1"].class # "none" /\ Analyzable(svc["s1"])
    /\ svc["s2"].class = "TemplateAnalyzerService" /\ ~Analyzable(svc["s2"])
    /\ Len(hist["s1"].returned) = 2 /\ Len(hist["s2"].returned) = 2
    /\ hist["s1"].runs = 1 /\ svc["s1"].ranked_results.set
    /\ hist["s2"].runs = 2 /\ ~svc["s2"].ranked_results.set
    /\ hist["s2"].returned[2] = Raises("ValueError")

\* The keyword stands at position s of the text, in either case, with no
\* word character right before or right after it.
DelimitedOccurrence(text, word, s) ==
    /\ s + Len(word) - 1 <= Len(text)
    /\ LowerStr(SubSeq(text, s, s + Len(word) - 1)) = LowerStr(word)
    /\ s > 1 => ~IsWordChar(text[s - 1])
    /\ s + Len(word) <= Len(text) => ~IsWordChar(text[s + Len(word)])

\* The positions of the non-space characters before s, and from s on.
NonSpaceBefore(text, s) == {q \in 1..(s - 1) : ~IsSpace(text[q])}
NonSpaceFrom(text, s) == {q \in s..Len(text) : ~IsSpace(text[q])}

\* What the occurrence at s contributes: its preceding and its following
\* non-space character, when present.
PrecedingOf(text, word, s) ==
    IF DelimitedOccurrence(text, word, s) /\ NonSpaceBefore(text, s) # {}
    THEN <<text[SetMax(NonSpaceBefore(text, s))]>> ELSE <<>>

FollowingOf(text, word, s) ==
    IF DelimitedOccurrence(text, word, s) /\ NonSpaceFrom(text, s + Len(word)) # {}
    THEN <<text[SetMin(NonSpaceFrom(text, s + Len(word)))]>> ELSE <<>>

\* The neighbours of all the delimited occurrences, text after text.
NeighboursOfOccurrences(word, corpus) ==
    [prefixos |-> Flatten([k \in 1..Len(corpus) |->
                     Flatten([s \in 1..Len(corpus[k]) |-> PrecedingOf(corpus[k], word, s)])]),
     sufixos  |-> Flatten([k \in 1..Len(corpus) |->
                     Flatten([s \in 1..Len(corpus[k]) |-> FollowingOf(corpus[k], word, s)])])]

\* C21 as the specification states it: _find_neighboring_chars collects
\* the preceding and the following non-space character of every
\* word-boundary-delimited, case-insensitive occurrence of the keyword,
\* skipping none, and nothing for an occurrence inside a longer word.  The
\* pattern has no \b and takes a neighbouring occurrence as a neighbour.
C21_NeighboursOfDelimitedOccurrences ==
    fn = "RegexAnalyzerService._find_neighboring_chars" =>
        result.val = NeighboursOfOccurrences(item.v, textos)

IsPrefixOf(p, s) == Len(p) <= Len(s) /\ SubSeq(s, 1, Len(p)) = p

IsSuffixOf(p, s) == Len(p) <= Len(s) /\ SubSeq(s, Len(s) - Len(p) + 1, Len(s)) = p

\* p is a prefix of every string and no longer prefix of the first string
\* is one.
LongestCommonPrefixIs(p, strings) ==
    /\ \A k \in 1..Len(strings) : IsPrefixOf(p, strings[k])
    /\ \A n \in (Len(p) + 1)..Len(strings[1]) :
           \E k \in 1..Len(strings) : ~IsPrefixOf(SubSeq(strings[1], 1, n), strings[k])

LongestCommonSuffixIs(p, strings) ==
    /\ \A k \in 1..Len(strings) : IsSuffixOf(p, strings[k])
    /\ \A n \in (Len(p) + 1)..Len(strings[1]) :
           \E k \in 1..Len(strings) :
               ~IsSuffixOf(SubSeq(strings[1], Len(strings[1]) - n + 1, Len(strings[1])),
                           strings[k])

Reversed(strings) == [k \in 1..Len(strings) |-> Reverse(strings[k])]

\* C22: _find_longest_common_prefix returns, for a non-empty list, the
\* longest string that is a prefix of every element, and "" for an empty
\* list; _find_longest_common_suffix returns the longest string that is a
\* suffix of every element, the reverse of the longest common prefix of the
\* reversed strings.
C22_LongestCommonPrefixAndSuffix ==
    /\ fn = "RegexAnalyzerService._find_longest_common_prefix" =>
           IF textos = <<>> THEN result.val = <<>>
           ELSE LongestCommonPrefixIs(result.val, textos)
    /\ fn = "RegexAnalyzerService._find_longest_common_suffix" =>
           IF textos = <<>> THEN result.val = <<>>
           ELSE /\ LongestCommonSuffixIs(result.val, textos)
                /\ LongestCommonPrefixIs(Reverse(result.val), Reversed(textos))

\* Two strings agree on their first character and differ on the second.
C22_PrefixEndsAtMismatch ==
    /\ fn = "RegexAnalyzerService._find_longest_common_prefix"
    /\ Len(textos) = 2
    /\ Len(result.val) = 1
    /\ Len(textos[1]) = 2 /\ Len(textos[2]) = 2
    /\ textos[1][2] # textos[2][2]

\* A bracket-delimited placeholder among the segments of a template.
IsPlaceholderPart(part) == StartsWithBracket(part) /\ EndsWithBracket(part)

\* (.+?) for a placeholder, the escaped trimmed text for a literal.
MappedPart(part) == IF IsPlaceholderPart(part) THEN CaptureGroup ELSE Escape(Strip(part))

\* The \s*-join of the mapped segments, a segment that maps to nothing left
\* out.
JoinMapped(segments) ==
    JoinWith(<<"\\", "s", "*">>,
             FilterNonEmpty([k \in 1..Len(segments) |-> MappedPart(segments[k])]))

BuildsStrategies ==
    /\ fn \in {"TemplateAnalyzerService._build_regex_strategies", "_build_regex_strategies"}
    /\ result.kind = "candidates"

\* C23 as the specification states it: for every valid template the
\* Full-Context pattern, the first one generated, is the \s*-join in
\* template order of one capture group per bracket-delimited placeholder and
\* of the escaped trimmed text of each non-empty literal, a literal never
\* becoming a capture group and an empty literal adding no joiner.
C23_FullContextPattern ==
    BuildsStrategies => hist[1].regex = JoinMapped(SplitTemplate(item.v))

IsStartAnchored(c) ==
    c.estrategia \in {<<"Ancorado no Inicio">>,
                      <<"Ancorado no Inicio (ignora o final do template)">>}

IsEndAnchored(c) ==
    c.estrategia \in {<<"Ancorado no Fim">>,
                      <<"Ancorado no Fim (ignora o inicio do template)">>}

\* The segments without the last one, and without the first one.
ButLast(parts) == SubSeq(parts, 1, Len(parts) - 1)
ButFirst(parts) == SubSeq(parts, 2, Len(parts))

\* The Start-Anchored candidate is there when the last segment is a literal
\* and there are more than 2 segments, and it maps every segment but that
\* one; the same for the End-Anchored candidate and the first segment.
AnchoredAsStated(generated, parts) ==
    /\ (~IsPlaceholderPart(parts[Len(parts)]) /\ Len(parts) > 2) =>
           \E k \in 1..Len(generated) : IsStartAnchored(generated[k])
    /\ (~IsPlaceholderPart(parts[1]) /\ Len(parts) > 2) =>
           \E k \in 1..Len(generated) : IsEndAnchored(generated[k])
    /\ \A k \in 1..Len(generated) :
           /\ IsStartAnchored(generated[k]) => generated[k].regex = JoinMapped(ButLast(parts))
           /\ IsEndAnchored(generated[k]) => generated[k].regex = JoinMapped(ButFirst(parts))

\* C24 as the specification states it: when the last segment of a template
\* is a literal and there are more than 2 segments, the Start-Anchored
\* candidate is the Full-Context part list without the mapped part of that
\* last literal, so it keeps the capture group of every placeholder;
\* symmetrically the End-Anchored candidate drops only the mapped part of
\* the first literal.  The segments are those re.split gives, the first and
\* the last of them literals that may be empty and then map to nothing.
C24_AnchoredDropOnlyTheLiteral ==
    BuildsStrategies => AnchoredAsStated(hist, SplitTemplate(item.v))

IsMinimalContext(c) ==
    c.estrategia \in {<<"Contexto Minimo (entre marcadores)">>,
                      <<"Contexto Minimo (apenas entre os marcadores)">>}

PlaceholderIndices(parts) == {k \in 1..Len(parts) : IsPlaceholderPart(parts[k])}

\* At least two placeholders, and a non-blank literal between the first and
\* the last of them.
LiteralBetween(parts, idx) ==
    /\ Cardinality(idx) >= 2
    /\ \E k \in (SetMin(idx) + 1)..(SetMax(idx) - 1) :
           ~IsPlaceholderPart(parts[k]) /\ Strip(parts[k]) # <<>>

MinimalAsStated(generated, parts, idx) ==
    /\ (\E k \in 1..Len(generated) : IsMinimalContext(generated[k])) <=> LiteralBetween(parts, idx)
    /\ \A k \in 1..Len(generated) :
           IsMinimalContext(generated[k]) =>
               generated[k].regex = JoinMapped(SubSeq(parts, SetMin(idx), SetMax(idx)))

\* C25 as the specification states it: the Minimal-Context candidate is
\* generated exactly when the template has at least two placeholders and a
\* non-blank literal segment lies between the first and the last of them,
\* and its pattern maps only the segments from the first to the last
\* placeholder inclusive.
C25_MinimalContext ==
    BuildsStrategies =>
        MinimalAsStated(hist, SplitTemplate(item.v), PlaceholderIndices(SplitTemplate(item.v)))

Ranked == fn = "RegexAnalyzerService.analyze_and_rank" /\ result.kind = "rank"

\* C26: on the word path a candidate whose pattern fails to compile is
\* left out of the ranked list and does not abort the ranking: the result
\* holds exactly the other candidates, evaluated and ordered as if the
\* failing candidate had never been generated.
C26_FailingCandidateIsSkipped ==
    (Ranked /\ hist # <<>>) =>
        /\ result.val = WordAnalyzeAndRank(item.v, textos)
        /\ \A k \in 1..Len(result.val) : result.val[k].regex # FailingCandidate.regex

\* The failing candidate stood between two others, and the ranking moved a
\* later candidate to the front.
C26_SkippedInTheMiddle ==
    /\ Ranked /\ hist = <<2>>
    /\ Len(result.val) >= 3
    /\ RatingKey(result.val[1]) > RatingKey(result.val[2])
    /\ result.val[1].estrategia[1] # "Borda de Palavra Simples (ignora maiusculas/minusculas)"

\* C27 as the specification states it: whenever the learned-context
\* candidate ('Contexto Otimizado') is generated for a keyword and corpus,
\* its pattern matches at least one corpus text: its success count in the
\* ranked list is at least 1.
C27_LearnedContextMatches ==
    Ranked =>
        \A k \in 1..Len(result.val) :
            result.val[k].estrategia = <<"Contexto Otimizado (aprendido dos exemplos)">> =>
                SuccessCount(result.val[k]) >= 1

SimpleBoundaryLabel == <<"Borda de Palavra Simples (ignora maiusculas/minusculas)">>
ExactMatchLabel == <<"Correspondencia Exata (sensivel a maiusculas/minusculas)">>

SimpleBeforeExact(r, labels) ==
    /\ PositionIn(labels, SimpleBoundaryLabel) < PositionIn(labels, ExactMatchLabel)
    /\ SuccessCount(r[PositionIn(labels, SimpleBoundaryLabel)])
           >= SuccessCount(r[PositionIn(labels, ExactMatchLabel)])
    /\ labels[1] # ExactMatchLabel

\* C29: in every ranked list of RegexAnalyzerService.analyze_and_rank the
\* case-insensitive simple-boundary entry comes before the case-sensitive
\* exact-match entry, its success count is never lower, and the first entry
\* is never the exact-match entry.
C29_SimpleBoundaryBeforeExactMatch ==
    Ranked => SimpleBeforeExact(result.val, LabelsOf(result.val))

\* The keyword occurs in the other case only: the two entries have
\* different counts and another entry stands between them.
C29_CaseMakesTheDifference ==
    /\ Ranked /\ hist = <<>>
    /\ SuccessCount(result.val[PositionIn(LabelsOf(result.val), SimpleBoundaryLabel)])
           > SuccessCount(result.val[PositionIn(LabelsOf(result.val), ExactMatchLabel)])
    /\ PositionIn(LabelsOf(result.val), ExactMatchLabel)
           > PositionIn(LabelsOf(result.val), SimpleBoundaryLabel) + 1

ContainsSub(s, sub) ==
    \E i \in 0..(Len(s) - Len(sub)) : SubSeq(s, i + 1, i + Len(sub)) = sub

HasCaptureGroup(regex) == ContainsSub(regex, CaptureGroup)

\* The non-blank literal segments of a template, trimmed.
NonBlankLiterals(parts) ==
    {Strip(parts[k]) : k \in {j \in 1..Len(parts) :
                                 ~IsPlaceholderPart(parts[j]) /\ Strip(parts[j]) # <<>>}}

HasEscapedLiteral(regex, literals) == \E l \in literals : ContainsSub(regex, Escape(l))

\* A valid template with a non-blank literal segment was ranked by
\* regex_rank, or answered by regex_context, on a non-empty corpus.
TemplateWithLiteralAnswered ==
    /\ fn \in {"regex_rank", "regex_context"}
    /\ item.kind = "str" /\ textos # <<>>
    /\ ~TemplateInvalid(item.v)
    /\ NonBlankLiterals(SplitTemplate(item.v)) # {}

\* The patterns of the call: the candidates regex_rank lists, the pattern
\* regex_context returns.
PatternsAnswered ==
    IF fn = "regex_rank" THEN {result.val[k].regex : k \in 1..Len(result.val)}
    ELSE {result.val}

\* C28: for every valid template with a non-blank literal segment and every
\* non-empty corpus, every candidate pattern of
\* TemplateAnalyzerService._build_regex_strategies, and so the pattern
\* regex_context returns, contains at least one capture group and at least
\* one escaped literal of the template.
C28_CaptureGroupAndLiteral ==
    TemplateWithLiteralAnswered =>
        \A r \in PatternsAnswered :
            /\ HasCaptureGroup(r)
            /\ HasEscapedLiteral(r, NonBlankLiterals(SplitTemplate(item.v)))

\* The (regex, rating_sucesso, matches) triples of a ranked list, in order.
TriplesOf(r) ==
    [k \in 1..Len(r) |-> <<r[k].regex, r[k].rating_sucesso, r[k].matches>>]

\* C30 as the specification states it: for every valid template and every
\* non-empty corpus, analisar_template_e_rankear_regex and
\* TemplateAnalyzerService.analyze_and_rank return the same ordered sequence
\* of (regex, rating_sucesso, matches) triples.
C30_RankersAgree ==
    (/\ fn = "analisar_template_e_rankear_regex"
     /\ ~TemplateInvalid(item.v)
     /\ textos # <<>>)
        => TriplesOf(result.val) = TriplesOf(TemplateAnalyzeAndRank(item.v, textos))

====
